---- MODULE Spec2Model ----
(***************************************************************************)
(* Model of the pose / hand detection application: the main loop of        *)
(* PoseDetectionApp (src/src/main.py), the skeleton renderer               *)
(* (src/src/skeleton_renderer.py), and the interfaces of the camera and    *)
(* of the two detectors as far as the application uses them.               *)
(*                                                                         *)
(* Conventions.                                                            *)
(*  - A Python value that may be None is a sequence of length 0 or 1:      *)
(*    None is <<>>, a present value v is <<v>>.                            *)
(*  - A float is an exact rational <<numerator, denominator>> with a       *)
(*    positive denominator.                                                *)
(*  - A Python list is a sequence; Python index i is sequence index i+1.   *)
(*  - A frame is [img, h, ops]: one row of pixels (the camera image), the  *)
(*    height, and the draw operations applied to it, in order. The width   *)
(*    is Len(img).                                                         *)
(***************************************************************************)
EXTENDS Integers, Sequences, FiniteSets, TLC

\* ------------------------------------------------------------------ bounds

\* Loop iterations (camera reads) of one run of the application.
MaxFrames == 2
\* calculate_fps calls in the FPS-only specification (beyond the history cap).
MaxFpsCalls == 33
\* Landmarks of a body set whose visibility differs from the set's base value.
MaxVaried == 1
\* handle_key_events calls in the key-handling specification.
MaxKeys == 2

\* --------------------------------------------------------------- rationals

None == <<>>
Some(v) == <<v>>

\* a/b > c/d for positive denominators
RatGt(a, b) == a[1] * b[2] > b[1] * a[2]

\* Python int(): truncation toward zero of n/d, d > 0
Trunc(n, d) == IF n >= 0 THEN n \div d ELSE -((-n) \div d)

\* ------------------------------------------------------------ config.py

SKELETON_COLOR == <<0, 255, 0>>
HAND_COLOR == <<255, 0, 0>>
LANDMARK_COLOR == <<0, 0, 255>>
LINE_THICKNESS == 2
LANDMARK_RADIUS == 5
SHOW_LANDMARKS == TRUE
SHOW_CONNECTIONS == TRUE
SHOW_FPS == TRUE
SHOW_INSTRUCTIONS == TRUE
TEXT_COLOR == <<255, 255, 255>>
TEXT_THICKNESS == 2
MAX_NUM_HANDS == 2
KEY_QUIT_ESC == 27
KEY_QUIT_Q == 113
KEY_SCREENSHOT == 115
KEY_PAUSE == 112
KEY_TOGGLE_HANDS == 104
KEY_TOGGLE_POSE == 98
KEY_TOGGLE_MIRROR == 109
\* cv2.waitKey(1) & 0xFF when no key was pressed
NO_KEY == 255

\* ------------------------------------------------------------ frames, cv2

Frame(img, h) == [img |-> img, h |-> h, ops |-> <<>>]
Width(fr) == Len(fr.img)

\* One draw operation. p, q are pixel points, r a radius, thick a thickness
\* (-1 fills), text a label, val the number the label shows.
DrawOp(op, p, q, r, color, thick, text, val) ==
  [op |-> op, p |-> p, q |-> q, r |-> r, color |-> color, thick |-> thick,
   text |-> text, val |-> val]

\* cv2.line(frame, p, q, color, thickness)
LineOp(p, q, color, thick) == DrawOp("line", p, q, 0, color, thick, "", 0)
\* cv2.circle(frame, c, radius, color, thickness)
CircleOp(c, r, color, thick) == DrawOp("circle", c, c, r, color, thick, "", 0)
\* cv2.putText(frame, text, org, font, scale, color, thickness)
TextOp(text, val, org, color, thick) == DrawOp("text", org, org, 0, color, thick, text, val)
\* cv2.rectangle(frame, p, q, color, thickness)
RectOp(p, q, color, thick) == DrawOp("rect", p, q, 0, color, thick, "", 0)

\* the frame after the draw calls ops, made in order on it
Draw(fr, ops) == [fr EXCEPT !.ops = @ \o ops]

Reverse(s) == [i \in 1..Len(s) |-> s[Len(s) + 1 - i]]

\* The mirror image of a draw operation in a frame of width w.
MirrorOp(o, w) ==
  [o EXCEPT !.p = <<w - 1 - o.p[1], o.p[2]>>, !.q = <<w - 1 - o.q[1], o.q[2]>>,
            !.op = IF o.op = "text" THEN "mirrored_text" ELSE
                   IF o.op = "mirrored_text" THEN "text" ELSE o.op]

\* cv2.flip(frame, 1): a new image, every row reversed
cv2_flip(fr) ==
  [fr EXCEPT !.img = Reverse(@),
             !.ops = [i \in 1..Len(fr.ops) |-> MirrorOp(fr.ops[i], Len(fr.img))]]

\* ------------------------------------------------------------------ state

VARIABLES
  pc,             \* where run() is: "start", "prompt", "read", "frame", "key",
                  \* "cleanup", "done" ("fpsonly", "render" in the
                  \* specifications of calculate_fps and of the renderer)
  config,         \* the flags of config.py: those the key handler rewrites,
                  \* and SHOW_CONNECTIONS, SHOW_LANDMARKS, which the renderer reads
  app,            \* the attributes of PoseDetectionApp
  camera,         \* the CameraHandler
  pose_detector,  \* the PoseDetector
  hand_detector,  \* the HandDetector
  frame,          \* run()'s local variable frame
  window,         \* what cv2.imshow last put in the window
  clock,          \* time.time(): the reading, and how it advances between calls
  samples,        \* history: every FPS sample taken so far, in order
  events,         \* history: the calls made in the current loop iteration
  counts,         \* history: how many times each operation has run
  key,            \* the key code the last poll returned
  shots,          \* the persistence collaborator: calls made, last frame
                  \* saved, writes that failed
  exit,           \* history: how run() left its normal path
  render          \* input and result of a renderer call (renderer specification)

vars == <<pc, config, app, camera, pose_detector, hand_detector, frame, window,
          clock, samples, events, counts, key, shots, exit, render>>

\* -------------------------------------------------- skeleton_renderer.py

\* What a renderer call returns: the frame as it is when the call ends and
\* "ok", or the exception it raised. cv2 draws in place, so the frame of a
\* call that raised keeps what was drawn before the exception.
Ok(fr) == [frame |-> fr, err |-> "ok"]
Raised(fr, e) == [frame |-> fr, err |-> e]

\* (int(landmark.x * width), int(landmark.y * height), landmark.visibility)
PoseCoords(fr, lms) ==
  [i \in 1..Len(lms) |->
     [x |-> Trunc(lms[i].x[1] * Width(fr), lms[i].x[2]),
      y |-> Trunc(lms[i].y[1] * fr.h, lms[i].y[2]),
      visibility |-> lms[i].visibility]]

\* the connections list of draw_pose_skeleton (Python indices)
PoseConnections ==
  << <<11, 12>>, <<11, 23>>, <<12, 24>>, <<23, 24>>,
     <<11, 13>>, <<13, 15>>,
     <<12, 14>>, <<14, 16>>,
     <<15, 17>>, <<15, 19>>, <<15, 21>>,
     <<16, 18>>, <<16, 20>>, <<16, 22>> >>

\* the visibility threshold 0.5 of draw_pose_skeleton
VisibilityThreshold == <<1, 2>>

\* mutant: a landmark exactly at the threshold counts as visible (>= for >)
VisibleAtThreshold(c) == ~RatGt(VisibilityThreshold, c.visibility)

\* `visibility > 0.5`
Visible(c) == RatGt(c.visibility, VisibilityThreshold)

\* The visibility test of one connection raises IndexError when it indexes
\* past the list: coords[start] is indexed first, coords[end] only when start
\* is visible (Python's `and` short-circuits).
PoseConnectionRaises(coords, c) ==
  \/ c[1] + 1 > Len(coords)
  \/ Visible(coords[c[1] + 1]) /\ c[2] + 1 > Len(coords)

\* `if landmarks_coords[start_idx][2] > 0.5 and landmarks_coords[end_idx][2] > 0.5`
PoseConnectionDrawn(coords, c) ==
  Visible(coords[c[1] + 1]) /\ Visible(coords[c[2] + 1])

\* How many connections of conns the loop passes before one raises.
PosePassed(coords, conns) ==
  IF \E k \in 1..Len(conns) : PoseConnectionRaises(coords, conns[k])
  THEN (CHOOSE k \in 1..Len(conns) :
          /\ PoseConnectionRaises(coords, conns[k])
          /\ \A j \in 1..(k - 1) : ~PoseConnectionRaises(coords, conns[j])) - 1
  ELSE Len(conns)

\* the `for connection in connections` loop: a line for every connection whose
\* two ends are visible, up to the first connection that raises
DrawPoseConnections(fr, coords, conns) ==
  LET n == PosePassed(coords, conns)
      Drawn(c) == PoseConnectionDrawn(coords, c)
      drawn == SelectSeq(SubSeq(conns, 1, n), Drawn)
      lines == [k \in 1..Len(drawn) |->
                  LineOp(<<coords[drawn[k][1] + 1].x, coords[drawn[k][1] + 1].y>>,
                         <<coords[drawn[k][2] + 1].x, coords[drawn[k][2] + 1].y>>,
                         SKELETON_COLOR, LINE_THICKNESS)]
  IN IF n < Len(conns) THEN Raised(Draw(fr, lines), "IndexError")
     ELSE Ok(Draw(fr, lines))

\* mutant: the circles of every landmark are drawn, visible or not
DrawPoseLandmarksUngated(fr, coords) ==
  Draw(fr, [k \in 1..(2 * Len(coords)) |->
              LET c == coords[(k + 1) \div 2]
              IN IF k % 2 = 1
                 THEN CircleOp(<<c.x, c.y>>, LANDMARK_RADIUS, LANDMARK_COLOR, -1)
                 ELSE CircleOp(<<c.x, c.y>>, LANDMARK_RADIUS + 2, SKELETON_COLOR, 2)])

\* the `for coord in landmarks_coords` loop: the filled circle and the outer
\* ring of every visible landmark, in the order of the list
DrawPoseLandmarks(fr, coords) ==
  LET visible == SelectSeq(coords, Visible)
      circles == [k \in 1..(2 * Len(visible)) |->
                    LET c == visible[(k + 1) \div 2]
                    IN IF k % 2 = 1
                       THEN CircleOp(<<c.x, c.y>>, LANDMARK_RADIUS, LANDMARK_COLOR, -1)
                       ELSE CircleOp(<<c.x, c.y>>, LANDMARK_RADIUS + 2, SKELETON_COLOR, 2)]
  IN Draw(fr, circles)

\* SkeletonRenderer.draw_pose_skeleton(frame, pose_landmarks); the drawing
\* flags are read from config when the call is made
draw_pose_skeleton(fr, pose_landmarks) ==
  IF pose_landmarks = None THEN Ok(fr)
  ELSE LET coords == PoseCoords(fr, pose_landmarks[1])
           lines == IF config.SHOW_CONNECTIONS
                    THEN DrawPoseConnections(fr, coords, PoseConnections)
                    ELSE Ok(fr)
       IN IF lines.err # "ok" THEN lines
          ELSE IF config.SHOW_LANDMARKS THEN Ok(DrawPoseLandmarks(lines.frame, coords))
          ELSE lines

\* the hand_connections list of draw_hands_skeleton (Python indices)
HandConnections ==
  << <<0, 1>>, <<1, 2>>, <<2, 3>>, <<3, 4>>,
     <<0, 5>>, <<5, 6>>, <<6, 7>>, <<7, 8>>,
     <<0, 9>>, <<9, 10>>, <<10, 11>>, <<11, 12>>,
     <<0, 13>>, <<13, 14>>, <<14, 15>>, <<15, 16>>,
     <<0, 17>>, <<17, 18>>, <<18, 19>>, <<19, 20>>,
     <<5, 9>>, <<9, 13>>, <<13, 17>> >>

\* (int(landmark.x * width), int(landmark.y * height))
HandCoords(fr, lms) ==
  [i \in 1..Len(lms) |->
     <<Trunc(lms[i].x[1] * Width(fr), lms[i].x[2]),
       Trunc(lms[i].y[1] * fr.h, lms[i].y[2])>>]

\* indexing landmarks_coords[start_idx] or [end_idx] past the list
HandConnectionRaises(coords, c) == c[1] + 1 > Len(coords) \/ c[2] + 1 > Len(coords)

HandPassed(coords, conns) ==
  IF \E k \in 1..Len(conns) : HandConnectionRaises(coords, conns[k])
  THEN (CHOOSE k \in 1..Len(conns) :
          /\ HandConnectionRaises(coords, conns[k])
          /\ \A j \in 1..(k - 1) : ~HandConnectionRaises(coords, conns[j])) - 1
  ELSE Len(conns)

\* the `for connection in hand_connections` loop: a line for every connection,
\* up to the first one that raises
DrawHandConnections(fr, coords, conns) ==
  LET n == HandPassed(coords, conns)
      lines == [k \in 1..n |->
                  LineOp(coords[conns[k][1] + 1], coords[conns[k][2] + 1],
                         HAND_COLOR, LINE_THICKNESS)]
  IN IF n < Len(conns) THEN Raised(Draw(fr, lines), "IndexError")
     ELSE Ok(Draw(fr, lines))

\* the `for coord in landmarks_coords` loop of a hand: two circles per point
DrawHandLandmarks(fr, coords) ==
  Draw(fr, [k \in 1..(2 * Len(coords)) |->
              IF k % 2 = 1
              THEN CircleOp(coords[(k + 1) \div 2], LANDMARK_RADIUS, LANDMARK_COLOR, -1)
              ELSE CircleOp(coords[(k + 1) \div 2], LANDMARK_RADIUS + 2, HAND_COLOR, 2)])

\* the body of the `for hand_landmarks in multi_hand_landmarks` loop
DrawOneHand(fr, lms) ==
  LET coords == HandCoords(fr, lms)
      lines == IF config.SHOW_CONNECTIONS
               THEN DrawHandConnections(fr, coords, HandConnections)
               ELSE Ok(fr)
  IN IF lines.err # "ok" THEN lines
     ELSE IF config.SHOW_LANDMARKS THEN Ok(DrawHandLandmarks(lines.frame, coords))
     ELSE lines

\* mutant: only the first hand of the list is drawn
DrawHandsFirstOnly(fr, hands) ==
  IF hands = <<>> THEN Ok(fr) ELSE DrawOneHand(fr, Head(hands))

RECURSIVE DrawHands(_, _)
DrawHands(fr, hands) ==
  IF hands = <<>> THEN Ok(fr)
  ELSE LET r == DrawOneHand(fr, Head(hands))
       IN IF r.err # "ok" THEN r ELSE DrawHands(r.frame, Tail(hands))

\* mutant: the first hand is indexed before the loop (multi_hand_landmarks[0])
draw_hands_skeleton_indexes_first(fr, multi_hand_landmarks) ==
  IF multi_hand_landmarks = None THEN Ok(fr)
  ELSE IF multi_hand_landmarks[1] = <<>> THEN Raised(fr, "IndexError")
  ELSE DrawHands(fr, multi_hand_landmarks[1])

\* SkeletonRenderer.draw_hands_skeleton(frame, multi_hand_landmarks); the
\* drawing flags are read from config when the call is made
draw_hands_skeleton(fr, multi_hand_landmarks) ==
  IF multi_hand_landmarks = None THEN Ok(fr)
  ELSE DrawHands(fr, multi_hand_landmarks[1])

\* SkeletonRenderer.draw_combined_skeleton(frame, pose_landmarks,
\* multi_hand_landmarks), under the flags of config at the time of the call
draw_combined_skeleton(fr, pose_landmarks, multi_hand_landmarks, cfg) ==
  LET p == IF cfg.ENABLE_POSE_DETECTION /\ pose_landmarks # None
           THEN draw_pose_skeleton(fr, pose_landmarks)
           ELSE Ok(fr)
  IN IF p.err # "ok" THEN p
     ELSE IF cfg.ENABLE_HAND_DETECTION /\ multi_hand_landmarks # None
          THEN draw_hands_skeleton(p.frame, multi_hand_landmarks)
          ELSE p

\* f"{fps:.1f}": the number of tenths shown, the exact value rounded half to
\* even (exact for the binary fractions the model's clock produces)
FormatTenths(fps) ==
  LET n == 10 * fps[1]
      q == n \div fps[2]
      r == n % fps[2]
  IN IF 2 * r > fps[2] THEN q + 1
     ELSE IF 2 * r < fps[2] THEN q
     ELSE IF q % 2 = 0 THEN q ELSE q + 1

RECURSIVE NumDigits(_)
NumDigits(n) == IF n < 10 THEN 1 ELSE 1 + NumDigits(n \div 10)

\* cv2.getTextSize of "FPS: <d>.<d>", in character cells: the extent of the
\* text grows with the number of characters
FpsTextSize(tenths) == <<5 + NumDigits(tenths \div 10) + 2, 1>>

\* SkeletonRenderer.draw_fps(frame, fps), position (10, 30)
draw_fps(fr, fps) ==
  IF ~SHOW_FPS THEN fr
  ELSE LET tenths == FormatTenths(fps)
           size == FpsTextSize(tenths)
       IN Draw(fr, << RectOp(<<10 - 5, 30 - size[2] - 5>>,
                             <<10 + size[1] + 5, 30 + 5>>, <<0, 0, 0>>, -1),
                      TextOp("FPS", tenths, <<10, 30>>, TEXT_COLOR, TEXT_THICKNESS) >>)

\* SkeletonRenderer.draw_instructions(frame, position): seven lines of text,
\* 20 pixels apart
draw_instructions(fr, position) ==
  IF ~SHOW_INSTRUCTIONS THEN fr
  ELSE Draw(fr, [k \in 1..7 |->
                   TextOp("instruction", k, <<position[1], position[2] + 20 * (k - 1)>>,
                          TEXT_COLOR, 1)])

\* SkeletonRenderer.draw_detection_status(frame, pose_detected, hands_detected, position)
draw_detection_status(fr, pose_detected, hands_detected, position) ==
  Draw(fr, << TextOp("Pose", IF pose_detected THEN 1 ELSE 0, position,
                     IF pose_detected THEN <<0, 255, 0>> ELSE <<0, 0, 255>>, 2),
              TextOp("Manos", hands_detected, <<position[1], position[2] + 25>>,
                     IF hands_detected > 0 THEN <<0, 255, 0>> ELSE <<0, 0, 255>>, 2) >>)

\* SkeletonRenderer.add_overlay(frame, pose_detected, hands_detected, fps)
add_overlay(fr, pose_detected, hands_detected, fps) ==
  LET f1 == draw_fps(fr, fps)
      f2 == draw_detection_status(f1, pose_detected, hands_detected, <<10, fr.h - 60>>)
  IN IF SHOW_INSTRUCTIONS
     THEN draw_instructions(f2, <<Width(fr) - 150, 30>>)
     ELSE f2

\* ----------------------------------------------------------------- inputs

NumPoseLandmarks == 33
NumHandLandmarks == 21

Landmark(x, y, v) == [x |-> x, y |-> y, visibility |-> v]

\* normalized coordinates of the i-th landmark of a set: x from -1/30 (just
\* left of the frame) to 31/30 (just right of it), y from 33/32 downwards
CoordX(i) == <<i - 2, 30>>
CoordY(i) == <<34 - i, 32>>

\* visibility scores: below, at and above the threshold
Visibilities == { <<3, 10>>, <<1, 2>>, <<9, 10>> }

\* A body set of n landmarks, all of visibility base except at the Python
\* indices in the domain of the function varied.
PoseSet(n, base, varied) ==
  [i \in 1..n |->
     Landmark(CoordX(i), CoordY(i),
              IF (i - 1) \in DOMAIN varied THEN varied[i - 1] ELSE base)]

\* the body set the pose engine reports in the application: left elbow (13)
\* occluded, right wrist (16) exactly at the threshold
PoseSample == PoseSet(NumPoseLandmarks, <<9, 10>>, (13 :> <<3, 10>>) @@ (16 :> <<1, 2>>))

\* a hand instance; the engine gives hand landmarks visibility 0
HandSet(n, k) == [i \in 1..n |-> Landmark(CoordX(i + k), CoordY(i + 2 * k), <<0, 1>>)]

\* what Pose.process may report: no pose, or a body set
PoseEngineResults == {None, Some(PoseSample)}

\* what Hands.process may report: no hands, or one to MAX_NUM_HANDS hands
HandEngineResults ==
  {None} \cup {Some([j \in 1..n |-> HandSet(NumHandLandmarks, j)]) : n \in 1..MAX_NUM_HANDS}

\* the n-th frame the capture device delivers: it differs from every other
\* frame and from its own mirror image
CameraFrame(n) == Frame(<<3 * n, 3 * n + 1, 3 * n + 2>>, 2)

\* the key codes a poll may return
KeyCodes == {KEY_QUIT_ESC, KEY_QUIT_Q, KEY_SCREENSHOT, KEY_PAUSE, KEY_TOGGLE_HANDS,
             KEY_TOGGLE_POSE, KEY_TOGGLE_MIRROR, NO_KEY, 120}

\* how time.time() advances: the seconds between one reading and the next,
\* repeated in a cycle; 0: the clock did not advance between two readings
ClockPatterns == { <<1, 2>>, <<2, 0, 1>> }

\* ------------------------------------------- PoseDetectionApp.__init__

AppInit ==
  [is_running |-> FALSE, is_paused |-> FALSE, frame_count |-> 0,
   fps |-> <<0, 1>>, fps_history |-> <<>>, prev_time |-> 0, current_time |-> 0,
   pose_detected |-> FALSE, hands_detected |-> 0,
   renderer |-> FALSE, has_last_frame |-> FALSE, last_frame |-> None]

\* self.camera = None
CameraNone == [constructed |-> FALSE, cap |-> "None", is_opened |-> FALSE]
\* self.pose_detector = None, self.hand_detector = None
DetectorNone ==
  [constructed |-> FALSE, landmarks |-> None, calls |-> 0, closes |-> 0, returned |-> None]
\* PoseDetector(), HandDetector()
DetectorNew ==
  [constructed |-> TRUE, landmarks |-> None, calls |-> 0, closes |-> 0, returned |-> None]

CountsInit == [reads |-> 0, shows |-> 0, polls |-> 0, handled |-> 0, cleanups |-> 0]
RenderIdle == [frame |-> Frame(<<>>, 0), pose |-> None, hands |-> None,
               out |-> Ok(Frame(<<>>, 0)), op |-> "none"]

\* nothing has been handed to save_screenshot
ShotsInit == [calls |-> 0, saved |-> None, failed |-> 0]

InitCommon ==
  /\ app = AppInit
  /\ camera = CameraNone
  /\ pose_detector = DetectorNone
  /\ hand_detector = DetectorNone
  /\ frame = None
  /\ window = None
  /\ samples = <<>>
  /\ events = <<>>
  /\ counts = CountsInit
  /\ key = NO_KEY
  /\ shots = ShotsInit
  /\ exit = "none"

Init ==
  /\ pc = "start"
  /\ config \in [ENABLE_POSE_DETECTION : BOOLEAN, ENABLE_HAND_DETECTION : BOOLEAN,
                 MIRROR_MODE : BOOLEAN, SHOW_CONNECTIONS : {SHOW_CONNECTIONS},
                 SHOW_LANDMARKS : {SHOW_LANDMARKS}]
  /\ clock \in {[now |-> 1, dts |-> d, calls |-> 0] : d \in ClockPatterns}
  /\ render = RenderIdle
  /\ InitCommon

\* -------------------------------------------------------- camera_handler.py

\* CameraHandler(): self.cap = None, self.is_opened = False
CameraNew == [constructed |-> TRUE, cap |-> "None", is_opened |-> FALSE]

\* how a call of CameraHandler.initialize() may go: cv2.VideoCapture raises;
\* the capture is created but not opened; a cap.set / cap.get raises on the
\* opened capture; everything succeeds
InitializeOutcomes == {"raises", "not_opened", "set_raises", "ok"}

\* CameraHandler.initialize(): the handler afterwards and the value returned
initialize(cam, outcome) ==
  IF outcome = "raises" THEN [camera |-> cam, ret |-> FALSE]
  ELSE IF outcome = "not_opened"
       THEN [camera |-> [cam EXCEPT !.cap = "closed"], ret |-> FALSE]
  ELSE IF outcome = "set_raises"
       THEN [camera |-> [cam EXCEPT !.cap = "open"], ret |-> FALSE]
  ELSE [camera |-> [cam EXCEPT !.cap = "open", !.is_opened = TRUE], ret |-> TRUE]

\* mutant: only `self.cap is None` is tested before the device is read
read_frame_cap_only(cam, device_ok, device_frame) ==
  IF cam.cap = "None" THEN [success |-> FALSE, frame |-> None, touched |-> FALSE]
  ELSE IF ~device_ok THEN [success |-> FALSE, frame |-> None, touched |-> TRUE]
  ELSE [success |-> TRUE, frame |-> Some(device_frame), touched |-> TRUE]

\* CameraHandler() followed by initialize(): cv2.VideoCapture opened or not
CameraInitialized(opened) ==
  [constructed |-> TRUE, cap |-> IF opened THEN "open" ELSE "closed",
   is_opened |-> opened]

\* CameraHandler.read_frame(): (success, frame); device_ok and device_frame
\* are what cap.read() gives when it is called
\* touched tells whether cap.read() was called
read_frame(cam, device_ok, device_frame) ==
  IF ~cam.is_opened \/ cam.cap = "None"
  THEN [success |-> FALSE, frame |-> None, touched |-> FALSE]
  ELSE IF ~device_ok THEN [success |-> FALSE, frame |-> None, touched |-> TRUE]
  ELSE [success |-> TRUE, frame |-> Some(device_frame), touched |-> TRUE]

\* CameraHandler.release()
release(cam) ==
  IF cam.cap # "None" THEN [cam EXCEPT !.cap = "released", !.is_opened = FALSE]
  ELSE cam

\* ------------------------------------- pose_detector.py, hand_detector.py

\* PoseDetector.detect / HandDetector.detect on a frame that is not None:
\* the engine processes the frame and its result replaces the stored landmarks
\* and the call returns whether there are any; returned is the last value
\* detect() returned
detect(d, engine_result) ==
  [d EXCEPT !.landmarks = engine_result, !.calls = @ + 1,
            !.returned = Some(engine_result # None)]

\* detect(None): `if frame is None: return False`, before anything is stored
detect_none(d) == [d EXCEPT !.calls = @ + 1, !.returned = Some(FALSE)]

\* PoseDetector.get_landmarks / HandDetector.get_hands_landmarks
get_landmarks(d) == d.landmarks

\* HandDetector.get_num_hands_detected
get_num_hands_detected(d) == IF d.landmarks = None THEN 0 ELSE Len(d.landmarks[1])

\* detect() when the engine raises: nothing is stored
detect_raises(d) == [d EXCEPT !.calls = @ + 1]

\* PoseDetector.close / HandDetector.close: the engine handle is never
\* cleared, so `if self.pose:` holds on every call
close(d) == [d EXCEPT !.closes = @ + 1]

\* ------------------------------------------------------------------ main.py

Event(op, fr) == [op |-> op, frame |-> fr]

\* PoseDetectionApp.initialize_components, by how far it gets:
\* "camera": camera.initialize() returns False; "pose", "hands": the
\* detector's constructor raises; "ok": every component is constructed.
InitializeComponents ==
  /\ pc = "start"
  /\ \E outcome \in {"camera", "pose", "hands", "ok"} :
       /\ outcome = "pose" => config.ENABLE_POSE_DETECTION
       /\ outcome = "hands" => config.ENABLE_HAND_DETECTION
       /\ camera' = CameraInitialized(outcome # "camera")
       /\ pose_detector' = IF outcome \in {"hands", "ok"} /\ config.ENABLE_POSE_DETECTION
                           THEN DetectorNew ELSE pose_detector
       /\ hand_detector' = IF outcome = "ok" /\ config.ENABLE_HAND_DETECTION
                           THEN DetectorNew ELSE hand_detector
       /\ app' = [app EXCEPT !.renderer = (outcome = "ok")]
       \* run(): `if not self.initialize_components(): return`
       /\ pc' = IF outcome = "ok" THEN "prompt" ELSE "done"
       /\ exit' = IF outcome = "ok" THEN exit ELSE "init_failed"
  /\ UNCHANGED <<config, frame, window, clock, samples, events, counts, key, shots, render>>

\* print_instructions(): input() returns, then run() sets is_running and
\* last_frame; or input() is interrupted (Ctrl+C), outside run()'s try block
PrintInstructions ==
  /\ pc = "prompt"
  /\ \/ /\ app' = [app EXCEPT !.is_running = TRUE, !.has_last_frame = TRUE,
                              !.last_frame = None]
        /\ pc' = "read"
        /\ exit' = exit
     \/ /\ app' = app
        /\ pc' = "done"
        /\ exit' = "prompt_interrupt"
  /\ UNCHANGED <<config, camera, pose_detector, hand_detector, frame, window, clock,
                 samples, events, counts, key, shots, render>>

\* the number of FPS samples calculate_fps keeps
FpsHistoryCap == 30

\* mutant: the newest sample is evicted (pop() for pop(0))
calculate_fps_pop_last(a, t) ==
  LET a1 == [a EXCEPT !.current_time = t]
      time_diff == t - a.prev_time
      a2 == IF a.prev_time # 0 /\ time_diff > 0
            THEN LET h == Append(a.fps_history, <<1, time_diff>>)
                 IN [a1 EXCEPT !.fps = <<1, time_diff>>,
                               !.fps_history = IF Len(h) > FpsHistoryCap
                                               THEN SubSeq(h, 1, Len(h) - 1) ELSE h]
            ELSE a1
  IN [a2 EXCEPT !.prev_time = t]

\* mutant: a sample is taken on the first call too (no previous timestamp)
calculate_fps_samples_first_call(a, t) ==
  LET a1 == [a EXCEPT !.current_time = t]
      time_diff == t - a.prev_time
      a2 == IF time_diff > 0
            THEN LET h == Append(a.fps_history, <<1, time_diff>>)
                 IN [a1 EXCEPT !.fps = <<1, time_diff>>,
                               !.fps_history = IF Len(h) > FpsHistoryCap THEN Tail(h) ELSE h]
            ELSE a1
  IN [a2 EXCEPT !.prev_time = t]

RECURSIVE Gcd(_, _)
Gcd(a, b) == IF b = 0 THEN a ELSE Gcd(b, a % b)

\* a rational in lowest terms
RatNorm(r) == LET g == Gcd(r[1], r[2]) IN <<r[1] \div g, r[2] \div g>>

RECURSIVE RatSum(_)
RatSum(h) ==
  IF h = <<>> THEN <<0, 1>>
  ELSE LET t == RatSum(Tail(h))
       IN RatNorm(<<Head(h)[1] * t[2] + t[1] * Head(h)[2], Head(h)[2] * t[2]>>)

\* cleanup(): `sum(self.fps_history) / len(self.fps_history)`
AverageFps(h) == LET t == RatSum(h) IN RatNorm(<<t[1], t[2] * Len(h)>>)

\* mutant: the FPS kept for display is the average over the history
calculate_fps_average(a, t) ==
  LET a1 == [a EXCEPT !.current_time = t]
      time_diff == t - a.prev_time
      a2 == IF a.prev_time # 0 /\ time_diff > 0
            THEN LET h == Append(a.fps_history, <<1, time_diff>>)
                     kept == IF Len(h) > FpsHistoryCap THEN Tail(h) ELSE h
                 IN [a1 EXCEPT !.fps = AverageFps(kept), !.fps_history = kept]
            ELSE a1
  IN [a2 EXCEPT !.prev_time = t]

\* PoseDetectionApp.calculate_fps with time.time() reading t
calculate_fps(a, t) ==
  LET a1 == [a EXCEPT !.current_time = t]
      time_diff == t - a.prev_time
      a2 == IF a.prev_time # 0 /\ time_diff > 0
            THEN LET h == Append(a.fps_history, <<1, time_diff>>)
                 IN [a1 EXCEPT !.fps = <<1, time_diff>>,
                               !.fps_history = IF Len(h) > FpsHistoryCap THEN Tail(h) ELSE h]
            ELSE a1
  IN [a2 EXCEPT !.prev_time = t]

\* the reading of time.time() at the next call
NextReading == clock.now + clock.dts[(clock.calls % Len(clock.dts)) + 1]

\* history: the sample the call at reading t takes, if it takes one
SampleAt(a, t) ==
  IF a.prev_time # 0 /\ t > a.prev_time THEN <<(<<1, t - a.prev_time>>)>> ELSE <<>>

Tick ==
  /\ clock' = [clock EXCEPT !.now = NextReading, !.calls = @ + 1]
  /\ samples' = samples \o SampleAt(app, NextReading)
  /\ app' = calculate_fps(app, NextReading)

\* mutant: the FPS is sampled before the success of the read is tested
ReadFrameSamplesFirst ==
  /\ pc = "read"
  /\ app.is_running
  /\ counts.reads < MaxFrames
  /\ \E device_ok \in BOOLEAN :
       LET r == read_frame(camera, device_ok, CameraFrame(counts.reads + 1))
       IN /\ frame' = r.frame
          /\ Tick
          /\ pc' = IF r.success THEN "frame" ELSE "cleanup"
          /\ exit' = IF r.success THEN exit ELSE "read_failed"
  /\ counts' = [counts EXCEPT !.reads = @ + 1]
  /\ events' = <<>>
  /\ UNCHANGED <<config, camera, pose_detector, hand_detector, window, key, shots, render>>

\* run(): `success, frame = self.camera.read_frame()`, `if not success: break`,
\* `self.calculate_fps()`
ReadFrame ==
  /\ pc = "read"
  /\ app.is_running
  /\ counts.reads < MaxFrames
  /\ \E device_ok \in BOOLEAN :
       LET r == read_frame(camera, device_ok, CameraFrame(counts.reads + 1))
       IN /\ frame' = r.frame
          /\ IF r.success
             THEN /\ Tick
                  /\ pc' = "frame"
                  /\ exit' = exit
             ELSE /\ UNCHANGED <<app, clock, samples>>
                  /\ pc' = "cleanup"
                  /\ exit' = "read_failed"
  /\ counts' = [counts EXCEPT !.reads = @ + 1]
  /\ events' = <<>>
  /\ UNCHANGED <<config, camera, pose_detector, hand_detector, window, key, shots, render>>

\* process_frame works on this record: the frame being composed, the
\* attributes of the application, the two detectors, the landmark sets found
\* (the locals pose_landmarks and hand_landmarks), the calls made so far and
\* "ok" or the exception that ended the call.
PFState(fr, a, pd, hd) ==
  [frame |-> fr, app |-> a, pose_detector |-> pd, hand_detector |-> hd,
   pose_landmarks |-> None, hand_landmarks |-> None, events |-> <<>>, err |-> "ok"]

\* `if config.MIRROR_MODE: frame = cv2.flip(frame, 1)`, then the reset of
\* pose_detected and hands_detected
PFMirror(s, cfg) ==
  LET s1 == IF cfg.MIRROR_MODE
            THEN [s EXCEPT !.frame = cv2_flip(s.frame),
                           !.events = Append(@, Event("cv2.flip", s.frame))]
            ELSE s
  IN [s1 EXCEPT !.app.pose_detected = FALSE, !.app.hands_detected = 0]

\* mutant: only the flag is tested, not whether a detector was constructed
PFPoseFlagOnly(s, cfg, engine_result, raises) ==
  IF s.err # "ok" \/ ~cfg.ENABLE_POSE_DETECTION THEN s
  ELSE LET s1 == [s EXCEPT !.events = Append(@, Event("pose.detect", s.frame))]
       IN IF raises
          THEN [s1 EXCEPT !.pose_detector = detect_raises(@), !.err = "Exception"]
          ELSE LET d == detect(s.pose_detector, engine_result)
               IN [s1 EXCEPT !.pose_detector = d,
                             !.app.pose_detected = (d.landmarks # None),
                             !.pose_landmarks = d.landmarks]

\* `if config.ENABLE_POSE_DETECTION and self.pose_detector:` detect, get_landmarks
PFPose(s, cfg, engine_result, raises) ==
  IF s.err # "ok" \/ ~(cfg.ENABLE_POSE_DETECTION /\ s.pose_detector.constructed) THEN s
  ELSE LET s1 == [s EXCEPT !.events = Append(@, Event("pose.detect", s.frame))]
       IN IF raises
          THEN [s1 EXCEPT !.pose_detector = detect_raises(@), !.err = "Exception"]
          ELSE LET d == detect(s.pose_detector, engine_result)
               IN [s1 EXCEPT !.pose_detector = d,
                             !.app.pose_detected = (d.landmarks # None),
                             !.pose_landmarks = d.landmarks]

\* `if config.ENABLE_HAND_DETECTION and self.hand_detector:` detect,
\* get_num_hands_detected, get_hands_landmarks
PFHands(s, cfg, engine_result, raises) ==
  IF s.err # "ok" \/ ~(cfg.ENABLE_HAND_DETECTION /\ s.hand_detector.constructed) THEN s
  ELSE LET s1 == [s EXCEPT !.events = Append(@, Event("hands.detect", s.frame))]
       IN IF raises
          THEN [s1 EXCEPT !.hand_detector = detect_raises(@), !.err = "Exception"]
          ELSE LET d == detect(s.hand_detector, engine_result)
               IN [s1 EXCEPT !.hand_detector = d,
                             !.app.hands_detected =
                                IF d.landmarks = None THEN 0 ELSE Len(d.landmarks[1]),
                             !.hand_landmarks = d.landmarks]

\* `if pose_landmarks or hand_landmarks:` draw_combined_skeleton
PFRender(s, cfg) ==
  IF s.err # "ok" \/ (s.pose_landmarks = None /\ s.hand_landmarks = None) THEN s
  ELSE LET r == draw_combined_skeleton(s.frame, s.pose_landmarks, s.hand_landmarks, cfg)
       IN [s EXCEPT !.frame = r.frame, !.err = r.err,
                    !.events = Append(@, Event("draw_combined_skeleton", s.frame))]

\* `frame = self.renderer.add_overlay(...)`
PFOverlay(s) ==
  IF s.err # "ok" THEN s
  ELSE [s EXCEPT !.frame = add_overlay(s.frame, s.app.pose_detected,
                                       s.app.hands_detected, s.app.fps),
                 !.events = Append(@, Event("add_overlay", s.frame))]

\* mutant: the flip is applied after the detectors have seen the frame
process_frame_flip_late(fr, cfg, a, pd, hd, pose_result, hand_result, raises) ==
  PFOverlay(
    PFRender(
      PFMirror(
        PFHands(
          PFPose([PFState(fr, a, pd, hd) EXCEPT !.app.pose_detected = FALSE,
                                                 !.app.hands_detected = 0],
                 cfg, pose_result, raises = "pose"),
          cfg, hand_result, raises = "hands"),
        cfg),
      cfg))

\* mutant: the overlay is added before the skeletons are drawn
process_frame_overlay_first(fr, cfg, a, pd, hd, pose_result, hand_result, raises) ==
  PFRender(
    PFOverlay(
      PFHands(
        PFPose(PFMirror(PFState(fr, a, pd, hd), cfg), cfg, pose_result, raises = "pose"),
        cfg, hand_result, raises = "hands")),
    cfg)

\* PoseDetectionApp.process_frame(frame). pose_result, hand_result: what the
\* engines report if asked; raises: "pose" or "hands" when that engine raises.
process_frame(fr, cfg, a, pd, hd, pose_result, hand_result, raises) ==
  PFOverlay(
    PFRender(
      PFHands(
        PFPose(PFMirror(PFState(fr, a, pd, hd), cfg), cfg, pose_result, raises = "pose"),
        cfg, hand_result, raises = "hands"),
      cfg))

\* run(): `self.last_frame = frame.copy()`, `cv2.imshow(config.WINDOW_NAME, frame)`
\* for the frame fr composed by the calls evs; it is applied after the
\* iteration's other assignments to app
Show(fr, evs) ==
  /\ frame' = Some(fr)
  /\ window' = Some(fr)
  /\ events' = Append(evs, Event("cv2.imshow", fr))
  /\ counts' = [counts EXCEPT !.shows = @ + 1]
  /\ pc' = "key"

\* mutant: the pause flag is not consulted
IsActiveAlways == TRUE

\* run(): `if not self.is_paused:`
IsActive == ~app.is_paused

\* run(), not paused: `frame = self.process_frame(frame)`, `self.frame_count += 1`,
\* then last_frame and imshow; an exception in process_frame leaves the loop
\* through `except Exception`
ActiveFrame ==
  /\ pc = "frame"
  /\ IsActive
  /\ \E pose_result \in PoseEngineResults, hand_result \in HandEngineResults,
        raises \in {"none", "pose", "hands"} :
       LET s == process_frame(frame[1], config, app, pose_detector, hand_detector,
                              pose_result, hand_result, raises)
       IN /\ raises # "none" => s.err # "ok"
          /\ pose_detector' = s.pose_detector
          /\ hand_detector' = s.hand_detector
          /\ IF s.err = "ok"
             THEN /\ app' = [s.app EXCEPT !.frame_count = @ + 1,
                                          !.last_frame = Some(s.frame)]
                  /\ Show(s.frame, s.events)
                  /\ exit' = exit
             ELSE /\ frame' = frame
                  /\ app' = s.app
                  /\ events' = s.events
                  /\ pc' = "cleanup"
                  /\ exit' = "exception"
                  /\ UNCHANGED <<window, counts>>
  /\ UNCHANGED <<config, camera, clock, samples, key, shots, render>>

\* the banner of the paused branch: cv2.putText(frame, "PAUSADO ...",
\* (50, frame.shape[0] // 2), font, 1, (0, 0, 255), 3)
PauseBanner(fr) == Draw(fr, << TextOp("PAUSADO", 0, <<50, fr.h \div 2>>, <<0, 0, 255>>, 3) >>)

\* mutant: a paused iteration shows its frame without storing it in last_frame
PausedFrameKeepsLast ==
  /\ pc = "frame"
  /\ app.is_paused
  /\ app' = app
  /\ Show(PauseBanner(frame[1]), <<Event("cv2.putText", frame[1])>>)
  /\ UNCHANGED <<config, camera, pose_detector, hand_detector, clock, samples, key,
                 shots, exit, render>>

\* mutant: a paused iteration counts as a processed frame too
PausedFrameCounts ==
  /\ pc = "frame"
  /\ app.is_paused
  /\ app' = [app EXCEPT !.last_frame = Some(PauseBanner(frame[1])), !.frame_count = @ + 1]
  /\ Show(PauseBanner(frame[1]), <<Event("cv2.putText", frame[1])>>)
  /\ UNCHANGED <<config, camera, pose_detector, hand_detector, clock, samples, key,
                 shots, exit, render>>

\* mutant: a paused iteration shows its frame and starts over without polling
PausedFrameSkipsPoll ==
  /\ pc = "frame"
  /\ app.is_paused
  /\ app' = [app EXCEPT !.last_frame = Some(PauseBanner(frame[1]))]
  /\ frame' = Some(PauseBanner(frame[1]))
  /\ window' = Some(PauseBanner(frame[1]))
  /\ events' = <<Event("cv2.putText", frame[1]), Event("cv2.imshow", PauseBanner(frame[1]))>>
  /\ counts' = [counts EXCEPT !.shows = @ + 1]
  /\ pc' = "read"
  /\ UNCHANGED <<config, camera, pose_detector, hand_detector, clock, samples, key,
                 shots, exit, render>>

\* run(), paused: only the banner is drawn, then last_frame and imshow
PausedFrame ==
  /\ pc = "frame"
  /\ app.is_paused
  /\ app' = [app EXCEPT !.last_frame = Some(PauseBanner(frame[1]))]
  /\ Show(PauseBanner(frame[1]), <<Event("cv2.putText", frame[1])>>)
  /\ UNCHANGED <<config, camera, pose_detector, hand_detector, clock, samples, key,
                 shots, exit, render>>

\* save_screenshot(frame, filepath) of utils.drawing_utils, by its interface:
\* it writes the frame and returns True, or fails and returns False; ok is
\* which of the two happens
save_screenshot(sh, fr, ok) ==
  [sh EXCEPT !.calls = @ + 1,
             !.saved = IF ok THEN fr ELSE @,
             !.failed = IF ok THEN @ ELSE @ + 1]

\* mutant: the frame is handed to save_screenshot without looking at it first
capture_screenshot_unguarded(a, sh, save_ok) == save_screenshot(sh, a.last_frame, save_ok)

\* PoseDetectionApp.capture_screenshot; save_ok: what save_screenshot returns
capture_screenshot(a, sh, save_ok) ==
  IF ~a.has_last_frame \/ a.last_frame = None THEN sh
  ELSE save_screenshot(sh, a.last_frame, save_ok)

\* mutant: a screenshot that could not be written ends the loop
handle_key_events_save_fatal(k, a, cfg, sh, save_ok) ==
  LET same == [app |-> a, config |-> cfg, shots |-> sh, continue |-> TRUE]
  IN IF k = KEY_QUIT_ESC \/ k = KEY_QUIT_Q THEN [same EXCEPT !.continue = FALSE]
     ELSE IF k = KEY_SCREENSHOT
          THEN LET sh1 == capture_screenshot(a, sh, save_ok)
               IN [same EXCEPT !.shots = sh1, !.continue = (sh1.failed = sh.failed)]
     ELSE IF k = KEY_PAUSE
          THEN [same EXCEPT !.app.is_paused = ~a.is_paused]
     ELSE IF k = KEY_TOGGLE_HANDS
          THEN [same EXCEPT !.config.ENABLE_HAND_DETECTION = ~cfg.ENABLE_HAND_DETECTION]
     ELSE IF k = KEY_TOGGLE_POSE
          THEN [same EXCEPT !.config.ENABLE_POSE_DETECTION = ~cfg.ENABLE_POSE_DETECTION]
     ELSE IF k = KEY_TOGGLE_MIRROR
          THEN [same EXCEPT !.config.MIRROR_MODE = ~cfg.MIRROR_MODE]
     ELSE same

\* mutant: the quit keys do not return False
handle_key_events_no_quit(k, a, cfg, sh, save_ok) ==
  LET same == [app |-> a, config |-> cfg, shots |-> sh, continue |-> TRUE]
  IN IF k = KEY_SCREENSHOT
          THEN [same EXCEPT !.shots = capture_screenshot(a, sh, save_ok)]
     ELSE IF k = KEY_PAUSE
          THEN [same EXCEPT !.app.is_paused = ~a.is_paused]
     ELSE IF k = KEY_TOGGLE_HANDS
          THEN [same EXCEPT !.config.ENABLE_HAND_DETECTION = ~cfg.ENABLE_HAND_DETECTION]
     ELSE IF k = KEY_TOGGLE_POSE
          THEN [same EXCEPT !.config.ENABLE_POSE_DETECTION = ~cfg.ENABLE_POSE_DETECTION]
     ELSE IF k = KEY_TOGGLE_MIRROR
          THEN [same EXCEPT !.config.MIRROR_MODE = ~cfg.MIRROR_MODE]
     ELSE same

\* mutant: the mirror key switches the mirror on instead of flipping the flag
handle_key_events_mirror_on(k, a, cfg, sh, save_ok) ==
  LET same == [app |-> a, config |-> cfg, shots |-> sh, continue |-> TRUE]
  IN IF k = KEY_QUIT_ESC \/ k = KEY_QUIT_Q THEN [same EXCEPT !.continue = FALSE]
     ELSE IF k = KEY_SCREENSHOT
          THEN [same EXCEPT !.shots = capture_screenshot(a, sh, save_ok)]
     ELSE IF k = KEY_PAUSE
          THEN [same EXCEPT !.app.is_paused = ~a.is_paused]
     ELSE IF k = KEY_TOGGLE_HANDS
          THEN [same EXCEPT !.config.ENABLE_HAND_DETECTION = ~cfg.ENABLE_HAND_DETECTION]
     ELSE IF k = KEY_TOGGLE_POSE
          THEN [same EXCEPT !.config.ENABLE_POSE_DETECTION = ~cfg.ENABLE_POSE_DETECTION]
     ELSE IF k = KEY_TOGGLE_MIRROR
          THEN [same EXCEPT !.config.MIRROR_MODE = TRUE]
     ELSE same

\* mutant: the quit key is matched without regard to case ('Q' quits too)
handle_key_events_any_case(k, a, cfg, sh, save_ok) ==
  LET same == [app |-> a, config |-> cfg, shots |-> sh, continue |-> TRUE]
  IN IF k = KEY_QUIT_ESC \/ k = KEY_QUIT_Q \/ k = KEY_QUIT_Q - 32
     THEN [same EXCEPT !.continue = FALSE]
     ELSE IF k = KEY_SCREENSHOT
          THEN [same EXCEPT !.shots = capture_screenshot(a, sh, save_ok)]
     ELSE IF k = KEY_PAUSE
          THEN [same EXCEPT !.app.is_paused = ~a.is_paused]
     ELSE IF k = KEY_TOGGLE_HANDS
          THEN [same EXCEPT !.config.ENABLE_HAND_DETECTION = ~cfg.ENABLE_HAND_DETECTION]
     ELSE IF k = KEY_TOGGLE_POSE
          THEN [same EXCEPT !.config.ENABLE_POSE_DETECTION = ~cfg.ENABLE_POSE_DETECTION]
     ELSE IF k = KEY_TOGGLE_MIRROR
          THEN [same EXCEPT !.config.MIRROR_MODE = ~cfg.MIRROR_MODE]
     ELSE same

\* mutant: the pause key switches the mirror off as well
handle_key_events_pause_unmirrors(k, a, cfg, sh, save_ok) ==
  LET same == [app |-> a, config |-> cfg, shots |-> sh, continue |-> TRUE]
  IN IF k = KEY_QUIT_ESC \/ k = KEY_QUIT_Q THEN [same EXCEPT !.continue = FALSE]
     ELSE IF k = KEY_SCREENSHOT
          THEN [same EXCEPT !.shots = capture_screenshot(a, sh, save_ok)]
     ELSE IF k = KEY_PAUSE
          THEN [same EXCEPT !.app.is_paused = ~a.is_paused, !.config.MIRROR_MODE = FALSE]
     ELSE IF k = KEY_TOGGLE_HANDS
          THEN [same EXCEPT !.config.ENABLE_HAND_DETECTION = ~cfg.ENABLE_HAND_DETECTION]
     ELSE IF k = KEY_TOGGLE_POSE
          THEN [same EXCEPT !.config.ENABLE_POSE_DETECTION = ~cfg.ENABLE_POSE_DETECTION]
     ELSE IF k = KEY_TOGGLE_MIRROR
          THEN [same EXCEPT !.config.MIRROR_MODE = ~cfg.MIRROR_MODE]
     ELSE same

\* mutant: the hands key flips the pause flag as well
handle_key_events_hands_pauses(k, a, cfg, sh, save_ok) ==
  LET same == [app |-> a, config |-> cfg, shots |-> sh, continue |-> TRUE]
  IN IF k = KEY_QUIT_ESC \/ k = KEY_QUIT_Q THEN [same EXCEPT !.continue = FALSE]
     ELSE IF k = KEY_SCREENSHOT
          THEN [same EXCEPT !.shots = capture_screenshot(a, sh, save_ok)]
     ELSE IF k = KEY_PAUSE
          THEN [same EXCEPT !.app.is_paused = ~a.is_paused]
     ELSE IF k = KEY_TOGGLE_HANDS
          THEN [same EXCEPT !.config.ENABLE_HAND_DETECTION = ~cfg.ENABLE_HAND_DETECTION,
                            !.app.is_paused = ~a.is_paused]
     ELSE IF k = KEY_TOGGLE_POSE
          THEN [same EXCEPT !.config.ENABLE_POSE_DETECTION = ~cfg.ENABLE_POSE_DETECTION]
     ELSE IF k = KEY_TOGGLE_MIRROR
          THEN [same EXCEPT !.config.MIRROR_MODE = ~cfg.MIRROR_MODE]
     ELSE same

\* PoseDetectionApp.handle_key_events(key): the attributes, the flags and the
\* screenshots after the call, and the value returned
handle_key_events(k, a, cfg, sh, save_ok) ==
  LET same == [app |-> a, config |-> cfg, shots |-> sh, continue |-> TRUE]
  IN IF k = KEY_QUIT_ESC \/ k = KEY_QUIT_Q THEN [same EXCEPT !.continue = FALSE]
     ELSE IF k = KEY_SCREENSHOT
          THEN [same EXCEPT !.shots = capture_screenshot(a, sh, save_ok)]
     ELSE IF k = KEY_PAUSE
          THEN [same EXCEPT !.app.is_paused = ~a.is_paused]
     ELSE IF k = KEY_TOGGLE_HANDS
          THEN [same EXCEPT !.config.ENABLE_HAND_DETECTION = ~cfg.ENABLE_HAND_DETECTION]
     ELSE IF k = KEY_TOGGLE_POSE
          THEN [same EXCEPT !.config.ENABLE_POSE_DETECTION = ~cfg.ENABLE_POSE_DETECTION]
     ELSE IF k = KEY_TOGGLE_MIRROR
          THEN [same EXCEPT !.config.MIRROR_MODE = ~cfg.MIRROR_MODE]
     ELSE same

\* run(): `key = cv2.waitKey(1) & 0xFF`, `if key != 255:` handle_key_events,
\* `break` when it returns False
PollKey ==
  /\ pc = "key"
  /\ \E k \in KeyCodes, save_ok \in BOOLEAN :
       /\ key' = k
       /\ save_ok = FALSE => (k = KEY_SCREENSHOT /\ app.has_last_frame /\ app.last_frame # None)
       /\ IF k # NO_KEY
          THEN LET r == handle_key_events(k, app, config, shots, save_ok)
               IN /\ app' = r.app
                  /\ config' = r.config
                  /\ shots' = r.shots
                  /\ pc' = IF r.continue THEN "read" ELSE "cleanup"
                  /\ exit' = IF r.continue THEN exit ELSE "quit"
                  /\ counts' = [counts EXCEPT !.polls = @ + 1, !.handled = @ + 1]
          ELSE /\ UNCHANGED <<app, config, shots, exit>>
               /\ pc' = "read"
               /\ counts' = [counts EXCEPT !.polls = @ + 1]
  /\ UNCHANGED <<camera, pose_detector, hand_detector, frame, window, clock, samples,
                 events, render>>

\* mutant: the interrupt leaves run() without passing through `finally`
KeyboardInterruptUncaught ==
  /\ pc \in {"read", "frame", "key"}
  /\ pc' = "done"
  /\ exit' = "interrupt"
  /\ UNCHANGED <<config, app, camera, pose_detector, hand_detector, frame, window,
                 clock, samples, events, counts, key, shots, render>>

\* Ctrl+C while the loop runs: `except KeyboardInterrupt`, then `finally`
KeyboardInterrupt ==
  /\ pc \in {"read", "frame", "key"}
  /\ pc' = "cleanup"
  /\ exit' = "interrupt"
  /\ UNCHANGED <<config, app, camera, pose_detector, hand_detector, frame, window,
                 clock, samples, events, counts, key, shots, render>>

\* PoseDetectionApp.cleanup, from run()'s `finally`
Cleanup ==
  /\ pc = "cleanup"
  /\ window' = None
  /\ camera' = IF camera.constructed THEN release(camera) ELSE camera
  /\ pose_detector' = IF pose_detector.constructed THEN close(pose_detector)
                      ELSE pose_detector
  /\ hand_detector' = IF hand_detector.constructed THEN close(hand_detector)
                      ELSE hand_detector
  /\ counts' = [counts EXCEPT !.cleanups = @ + 1]
  /\ pc' = "done"
  /\ UNCHANGED <<config, app, frame, clock, samples, events, key, shots, exit, render>>

Next ==
  \/ InitializeComponents
  \/ PrintInstructions
  \/ ReadFrame
  \/ ActiveFrame
  \/ PausedFrame
  \/ PollKey
  \/ KeyboardInterrupt
  \/ Cleanup

Spec == Init /\ [][Next]_vars

\* ------------------------------------------- calculate_fps on its own

\* how the clock may advance in the FPS-only specification
FpsClockPatterns == UNION {[1..n -> {0, 1, 2}] : n \in 1..2}

\* config.py as shipped
ConfigShipped ==
  [ENABLE_POSE_DETECTION |-> TRUE, ENABLE_HAND_DETECTION |-> TRUE, MIRROR_MODE |-> TRUE,
   SHOW_CONNECTIONS |-> SHOW_CONNECTIONS, SHOW_LANDMARKS |-> SHOW_LANDMARKS]

InitFps ==
  /\ pc = "fpsonly"
  /\ config = ConfigShipped
  /\ clock \in {[now |-> 1, dts |-> d, calls |-> 0] : d \in FpsClockPatterns}
  /\ render = RenderIdle
  /\ InitCommon

\* one call of calculate_fps, for a new frame
FpsCall ==
  /\ pc = "fpsonly"
  /\ clock.calls < MaxFpsCalls
  /\ Tick
  /\ render' = RenderIdle
  /\ UNCHANGED <<pc, config, camera, pose_detector, hand_detector, frame, window,
                 events, counts, key, shots, exit>>

\* process_frame's add_overlay call for the frame of the last calculate_fps
\* call: `self.renderer.add_overlay(frame, ..., fps=self.fps)`
FpsOverlay ==
  /\ pc = "fpsonly"
  /\ clock.calls >= 1
  /\ render.op = "none"
  /\ LET s == PFOverlay(PFState(CameraFrame(1), app, pose_detector, hand_detector))
     IN render' = [render EXCEPT !.frame = CameraFrame(1), !.out = Ok(s.frame),
                                 !.op = "overlay"]
  /\ UNCHANGED <<pc, config, app, camera, pose_detector, hand_detector, frame, window,
                 clock, samples, events, counts, key, shots, exit>>

NextFps ==
  \/ FpsCall
  \/ FpsOverlay

SpecFps == InitFps /\ [][NextFps]_vars

\* ------------------------------------------- the renderer on its own

\* the frames handed to the renderer: one wide enough to tell the landmarks
\* of a set apart, one of a few pixels
RenderFrames == {Frame([i \in 1..40 |-> i], 30), Frame(<<1, 2, 3>>, 2)}

\* Python indices of the landmarks whose visibility is varied: the ends of
\* the body connections, and the nose (0), which no connection touches
VariedIndices == {0} \cup {PoseConnections[k][1] : k \in 1..Len(PoseConnections)}
                     \cup {PoseConnections[k][2] : k \in 1..Len(PoseConnections)}

VariedSets == {S \in SUBSET VariedIndices : Cardinality(S) <= MaxVaried}

\* body sets: absent, empty, cut short, and complete ones of every base
\* visibility with up to MaxVaried landmarks of another visibility
RenderPoseInputs ==
  {None, Some(<<>>), Some(PoseSet(13, <<9, 10>>, <<>>))}
  \cup {Some(PoseSet(NumPoseLandmarks, base, varied)) :
          base \in Visibilities,
          varied \in UNION {[S -> Visibilities] : S \in VariedSets}}

\* hand lists: absent, empty, one or two hands, a hand cut short
RenderHandInputs ==
  {None, Some(<<>>), Some(<<HandSet(NumHandLandmarks, 1)>>),
   Some(<<HandSet(NumHandLandmarks, 1), HandSet(NumHandLandmarks, 2)>>),
   Some(<<HandSet(5, 1)>>)}

\* the flags the renderer is called under: config.py as shipped with every
\* value of the two detection flags, and with every value of the two drawing
\* flags
RenderConfigs ==
  {[ConfigShipped EXCEPT !.ENABLE_POSE_DETECTION = p, !.ENABLE_HAND_DETECTION = h] :
     p, h \in BOOLEAN}
  \cup {[ConfigShipped EXCEPT !.SHOW_CONNECTIONS = c, !.SHOW_LANDMARKS = l] :
          c, l \in BOOLEAN}

InitRender ==
  /\ pc = "render"
  /\ config \in RenderConfigs
  /\ clock = [now |-> 1, dts |-> <<1>>, calls |-> 0]
  /\ render \in {[frame |-> f, pose |-> p, hands |-> None, out |-> Ok(f), op |-> "none"] :
                   f \in RenderFrames, p \in RenderPoseInputs}
  /\ InitCommon

\* a call of draw_pose_skeleton
RenderPose ==
  /\ pc = "render"
  /\ render.op = "none"
  /\ render' = [render EXCEPT !.out = draw_pose_skeleton(render.frame, render.pose),
                              !.op = "pose"]
  /\ UNCHANGED <<pc, config, app, camera, pose_detector, hand_detector, frame, window,
                 clock, samples, events, counts, key, shots, exit>>

\* a call of draw_hands_skeleton
RenderHands ==
  /\ pc = "render"
  /\ render.op = "none"
  /\ \E h \in RenderHandInputs :
       render' = [render EXCEPT !.hands = h,
                                !.out = draw_hands_skeleton(render.frame, h),
                                !.op = "hands"]
  /\ UNCHANGED <<pc, config, app, camera, pose_detector, hand_detector, frame, window,
                 clock, samples, events, counts, key, shots, exit>>

\* a call of draw_combined_skeleton
RenderCombined ==
  /\ pc = "render"
  /\ render.op = "none"
  /\ \E h \in RenderHandInputs :
       render' = [render EXCEPT !.hands = h,
                                !.out = draw_combined_skeleton(render.frame, render.pose,
                                                               h, config),
                                !.op = "combined"]
  /\ UNCHANGED <<pc, config, app, camera, pose_detector, hand_detector, frame, window,
                 clock, samples, events, counts, key, shots, exit>>

NextRender ==
  \/ RenderPose
  \/ RenderHands
  \/ RenderCombined

SpecRender == InitRender /\ [][NextRender]_vars

\* ------------------------------------------- handle_key_events on its own

\* the application objects a key is handled on: before run() (no last_frame
\* attribute), after run() has set last_frame to None, and with a frame stored
KeyApps ==
  {[AppInit EXCEPT !.is_paused = p, !.has_last_frame = l[1], !.last_frame = l[2]] :
     p \in BOOLEAN,
     l \in {<<FALSE, None>>, <<TRUE, None>>, <<TRUE, Some(CameraFrame(1))>>}}

InitKeys ==
  /\ pc = "keys"
  /\ config \in [ENABLE_POSE_DETECTION : BOOLEAN, ENABLE_HAND_DETECTION : BOOLEAN,
                 MIRROR_MODE : BOOLEAN, SHOW_CONNECTIONS : {SHOW_CONNECTIONS},
                 SHOW_LANDMARKS : {SHOW_LANDMARKS}]
  /\ app \in KeyApps
  /\ clock = [now |-> 1, dts |-> <<1>>, calls |-> 0]
  /\ render = RenderIdle
  /\ camera = CameraNone
  /\ pose_detector = DetectorNone
  /\ hand_detector = DetectorNone
  /\ frame = None
  /\ window = None
  /\ samples = <<>>
  /\ events = <<>>
  /\ counts = CountsInit
  /\ key = NO_KEY
  /\ shots = ShotsInit
  /\ exit = "none"

\* the key codes handed to handle_key_events when it is called directly:
\* those of a poll, and 0, 'Q' and 'S'
DirectKeyCodes == KeyCodes \cup {0, KEY_QUIT_Q - 32, KEY_SCREENSHOT - 32}

\* a call of handle_key_events(key); a False return is recorded as "quit"
HandleKeyEvents ==
  /\ pc = "keys"
  /\ counts.handled < MaxKeys
  /\ \E k \in DirectKeyCodes, save_ok \in BOOLEAN :
       LET r == handle_key_events(k, app, config, shots, save_ok)
       IN /\ save_ok = FALSE => r.shots.failed # shots.failed
          /\ key' = k
          /\ app' = r.app
          /\ config' = r.config
          /\ shots' = r.shots
          /\ pc' = IF r.continue THEN "keys" ELSE "done"
          /\ exit' = IF r.continue THEN exit ELSE "quit"
  /\ counts' = [counts EXCEPT !.handled = @ + 1]
  /\ UNCHANGED <<camera, pose_detector, hand_detector, frame, window, clock, samples,
                 events, render>>

NextKeys == HandleKeyEvents

SpecKeys == InitKeys /\ [][NextKeys]_vars

\* ------------------------------------------------------------------ claims

EventOps == {events[i].op : i \in 1..Len(events)}
DetectOps == {"pose.detect", "hands.detect"}

\* C1: in a loop iteration executed while is_paused is true, frame_count is
\* not incremented, neither detector's detect() is invoked, and the only
\* thing drawn on the frame is the pause banner.
C1_PausedIterationIsInert ==
  [][(pc = "frame" /\ app.is_paused) =>
       /\ app'.frame_count = app.frame_count
       /\ pose_detector'.calls = pose_detector.calls
       /\ hand_detector'.calls = hand_detector.calls
       /\ pc' = "key" =>
            /\ frame'[1].img = frame[1].img
            /\ Len(frame'[1].ops) = Len(frame[1].ops) + 1
            /\ frame'[1].ops[Len(frame'[1].ops)].text = "PAUSADO"
            /\ window' = frame'
            /\ \A i \in 1..Len(events') : events'[i].op \in {"cv2.putText", "cv2.imshow"}]_vars

\* a paused iteration has drawn its banner and shown the frame
C1_Witness ==
  /\ pc = "key"
  /\ app.is_paused
  /\ counts.reads = 2
  /\ EventOps = {"cv2.putText", "cv2.imshow"}
  /\ app.frame_count = 1

\* the lines draw_pose_skeleton is to draw for the body set lms on frame fr:
\* one for every connection whose two ends have visibility above 1/2
C2_VisiblePair(lms, c) ==
  /\ 2 * lms[c[1] + 1].visibility[1] > lms[c[1] + 1].visibility[2]
  /\ 2 * lms[c[2] + 1].visibility[1] > lms[c[2] + 1].visibility[2]

C2_Pixel(fr, lm) ==
  <<Trunc(lm.x[1] * Width(fr), lm.x[2]), Trunc(lm.y[1] * fr.h, lm.y[2])>>

C2_LinesDrawn == {<<o.p, o.q>> : o \in {render.out.frame.ops[i] :
                     i \in {j \in 1..Len(render.out.frame.ops) :
                              render.out.frame.ops[j].op = "line"}}}

\* C2: draw_pose_skeleton draws the line of a connection (i, j) if and only
\* if visibility[i] > 0.5 and visibility[j] > 0.5; a landmark of visibility
\* <= 0.5 (0.5 included) has no line drawn to it.
C2_LineIffBothVisible ==
  (/\ render.op = "pose" /\ render.pose # None
   /\ Len(render.pose[1]) = NumPoseLandmarks /\ config.SHOW_CONNECTIONS) =>
     LET lms == render.pose[1]
         fr == render.frame
         lineOps == SelectSeq(render.out.frame.ops, LAMBDA o : o.op = "line")
         wanted == SelectSeq(PoseConnections, LAMBDA c : C2_VisiblePair(lms, c))
     IN /\ render.out.err = "ok"
        /\ Len(lineOps) = Len(wanted)
        /\ \A k \in 1..Len(wanted) :
             /\ lineOps[k].p = C2_Pixel(fr, lms[wanted[k][1] + 1])
             /\ lineOps[k].q = C2_Pixel(fr, lms[wanted[k][2] + 1])
        /\ \A k \in 1..Len(PoseConnections) :
             ~C2_VisiblePair(lms, PoseConnections[k]) /\ Width(fr) = 40 =>
               <<C2_Pixel(fr, lms[PoseConnections[k][1] + 1]),
                 C2_Pixel(fr, lms[PoseConnections[k][2] + 1])>> \notin C2_LinesDrawn

\* left shoulder (11) exactly at the threshold, right shoulder (12) visible:
\* the shoulder line is not drawn, the lines of the right arm are
C2_Witness ==
  /\ render.op = "pose"
  /\ config.SHOW_CONNECTIONS
  /\ render.pose # None
  /\ Len(render.pose[1]) = NumPoseLandmarks
  /\ render.pose[1][12].visibility = <<1, 2>>
  /\ render.pose[1][13].visibility = <<9, 10>>
  /\ Width(render.frame) = 40
  /\ Cardinality(C2_LinesDrawn) = 11

C3_LastN(s, n) == SubSeq(s, Len(s) - n + 1, Len(s))

\* C3: after any sequence of calculate_fps calls fps_history holds at most 30
\* entries and equals the last min(n, 30) of the n samples taken, in arrival
\* order (the oldest sample is the one evicted).
C3_FpsHistoryIsLast30 ==
  /\ Len(app.fps_history) <= 30
  /\ app.fps_history =
       C3_LastN(samples, IF Len(samples) < 30 THEN Len(samples) ELSE 30)

\* more than 30 samples have been taken: the oldest have been evicted
C3_Witness ==
  /\ Len(samples) > 30
  /\ Len(app.fps_history) = 30
  /\ samples[1] # samples[2]

\* C4: on every exit path of run(), including a failure of component
\* initialization after the camera or a detector has been acquired and an
\* interrupt at the instruction prompt, cleanup() has run and the camera
\* and the detectors are released when run() returns.
C4_CleanupOnEveryExit ==
  (pc = "done" /\ (camera.cap \in {"open", "released"} \/ pose_detector.constructed
                   \/ hand_detector.constructed)) =>
     /\ counts.cleanups = 1
     /\ camera.cap # "open"
     /\ pose_detector.constructed => pose_detector.closes >= 1
     /\ hand_detector.constructed => hand_detector.closes >= 1

\* C5: in every execution of run() that enters the main loop cleanup() is
\* executed exactly once: not before the loop is left, once when run() has
\* returned, whatever ended the loop.
C5_CleanupExactlyOnce ==
  app.is_running =>
     /\ counts.cleanups = (IF pc = "done" THEN 1 ELSE 0)
     /\ pc = "done" => exit \in {"quit", "read_failed", "exception", "interrupt"}

\* run() has returned after a Ctrl+C in the loop
C5_Witness ==
  /\ pc = "done"
  /\ app.is_running
  /\ exit = "interrupt"
  /\ counts.cleanups = 1
  /\ counts.shows >= 1

C6_QuitHandled ==
  /\ pc = "key"
  /\ counts'.handled = counts.handled + 1
  /\ key' \in {KEY_QUIT_ESC, KEY_QUIT_Q}

\* C6: a quit key, handled while running or while paused, ends the loop in
\* that iteration without changing the pause flag, and from then on no frame
\* is read, no detector is invoked, nothing is displayed and no key is
\* handled.
C6_QuitTerminatesDirectly ==
  [][/\ C6_QuitHandled =>
          /\ pc' = "cleanup"
          /\ exit' = "quit"
          /\ app' = app
          /\ config' = config
     /\ exit = "quit" =>
          /\ pc \in {"cleanup", "done"}
          /\ pc' \in {"cleanup", "done"}
          /\ counts'.reads = counts.reads
          /\ counts'.shows = counts.shows
          /\ counts'.polls = counts.polls
          /\ counts'.handled = counts.handled
          /\ pose_detector'.calls = pose_detector.calls
          /\ hand_detector'.calls = hand_detector.calls
          /\ app' = app]_vars

\* a quit key was handled while paused and run() has returned
C6_Witness ==
  /\ pc = "done"
  /\ exit = "quit"
  /\ app.is_paused
  /\ key = KEY_QUIT_ESC
  /\ counts.cleanups = 1

C7_ReadFailed ==
  /\ pc = "read"
  /\ counts'.reads = counts.reads + 1
  /\ frame' = None

\* C7: when read_frame() reports failure the loop ends in that iteration:
\* no FPS sample, no detection, no rendering, frame_count and last_frame
\* unchanged, no key polled, and control goes to cleanup.
C7_ReadFailureEndsLoop ==
  [][C7_ReadFailed =>
       /\ pc' = "cleanup"
       /\ app' = app
       /\ samples' = samples
       /\ clock' = clock
       /\ pose_detector' = pose_detector
       /\ hand_detector' = hand_detector
       /\ window' = window
       /\ counts'.shows = counts.shows
       /\ counts'.polls = counts.polls
       /\ events' = <<>>]_vars

\* the second read failed, after a frame had been composed and stored
C7_Witness ==
  /\ pc = "cleanup"
  /\ exit = "read_failed"
  /\ counts.reads = 2
  /\ app.last_frame # None
  /\ app.frame_count = 1

C8_ToggleKeys == {KEY_TOGGLE_HANDS, KEY_TOGGLE_POSE, KEY_TOGGLE_MIRROR}

C8_ToggleHandled ==
  /\ pc = "key"
  /\ counts'.handled = counts.handled + 1
  /\ key' \in C8_ToggleKeys

\* config after the key k, as the key handler leaves it
C8_After(k, cfg) == handle_key_events(k, app, cfg, shots, TRUE).config

C9_Base ==
  IF "cv2.flip" \in EventOps THEN cv2_flip(CameraFrame(counts.reads))
  ELSE CameraFrame(counts.reads)

\* C9: in every active frame the flip, when the mirror is on, comes before
\* any detector call; both detectors and the renderer get that same frame,
\* the overlay is drawn on it and it is the frame shown; no flip follows a
\* detector call.
C9_FlipBeforeDetection ==
  /\ \A i, j \in 1..Len(events) :
       (i < j /\ events[i].op # "cv2.flip") => events[j].op # "cv2.flip"
  /\ \A i \in 1..Len(events) :
       /\ events[i].op = "cv2.flip" => events[i].frame = CameraFrame(counts.reads)
       /\ events[i].op \in DetectOps \cup {"draw_combined_skeleton"} =>
            events[i].frame = C9_Base
       /\ events[i].op \in {"add_overlay", "cv2.imshow"} =>
            events[i].frame.img = C9_Base.img
  /\ (pc = "key" /\ ~app.is_paused) =>
       /\ ("cv2.flip" \in EventOps) = config.MIRROR_MODE
       /\ window[1].img = C9_Base.img

\* a mirrored frame on which both detectors found something has been shown
C9_Witness ==
  /\ pc = "key"
  /\ config.MIRROR_MODE
  /\ {"cv2.flip", "pose.detect", "hands.detect", "draw_combined_skeleton",
      "add_overlay", "cv2.imshow"} \subseteq EventOps
  /\ events[1].op = "cv2.flip"
  /\ window[1].img = Reverse(CameraFrame(counts.reads).img)

\* C10: draw_pose_skeleton and draw_combined_skeleton return the frame
\* unmodified, without raising, when the body set is absent (None) or empty
\* (zero points).
C10_NoBodySetIsNoOp ==
  (/\ render.op \in {"pose", "combined"}
   /\ render.pose = None \/ render.pose = Some(<<>>)
   /\ render.op = "combined" => render.hands = None) =>
     render.out = Ok(render.frame)

\* C11: given None or an empty list of hands, draw_hands_skeleton (and
\* draw_combined_skeleton without a body set) draws nothing and returns the
\* frame it was given, without raising, for every frame size and every value
\* of SHOW_CONNECTIONS and SHOW_LANDMARKS.
C11_NoHandsIsNoOp ==
  (/\ render.op \in {"hands", "combined"}
   /\ render.hands \in {None, Some(<<>>)}
   /\ render.op = "combined" => render.pose = None) =>
     /\ render.out = Ok(render.frame)
     /\ render.out.frame.ops = <<>>

\* an empty list of hands was drawn with the landmark circles switched off
C11_Witness ==
  /\ render.op = "hands"
  /\ render.hands = Some(<<>>)
  /\ ~config.SHOW_LANDMARKS
  /\ config.SHOW_CONNECTIONS
  /\ Width(render.frame) = 3
  /\ render.out.err = "ok"

\* round(n/d), d > 0: the nearest integer, a tie going to the even one
C12_Round(n, d) ==
  LET q == n \div d
      r == n - q * d
  IN IF 2 * r > d THEN q + 1
     ELSE IF 2 * r < d THEN q
     ELSE IF q % 2 = 0 THEN q ELSE q + 1

C12_RoundedPixel(fr, lm) ==
  <<C12_Round(lm.x[1] * Width(fr), lm.x[2]), C12_Round(lm.y[1] * fr.h, lm.y[2])>>

\* the centres of the filled circles drawn, in drawing order
C12_Centres ==
  LET filled == SelectSeq(render.out.frame.ops,
                          LAMBDA o : o.op = "circle" /\ o.thick = -1)
  IN [k \in 1..Len(filled) |-> filled[k].p]

\* the landmarks whose circles a call draws, in drawing order
C12_PointsDrawn ==
  IF render.op = "pose"
  THEN SelectSeq(render.pose[1], LAMBDA lm : 2 * lm.visibility[1] > lm.visibility[2])
  ELSE IF Len(render.hands[1]) = 0 THEN <<>>
  ELSE IF Len(render.hands[1]) = 1 THEN render.hands[1][1]
  ELSE render.hands[1][1] \o render.hands[1][2]

\* C12: every landmark is drawn at the pixel (round(x * width),
\* round(y * height)), the nearest integers, also for a point slightly
\* outside [0, 1].
C12_PixelIsRounded ==
  (/\ render.op \in {"pose", "hands"}
   /\ render.out.err = "ok"
   /\ config.SHOW_LANDMARKS
   /\ IF render.op = "pose" THEN render.pose # None ELSE render.hands # None) =>
     /\ Len(C12_Centres) = Len(C12_PointsDrawn)
     /\ \A k \in 1..Len(C12_PointsDrawn) :
          C12_Centres[k] = C12_RoundedPixel(render.frame, C12_PointsDrawn[k])

C13_ScreenshotHandled ==
  /\ pc = "keys"
  /\ counts'.handled = counts.handled + 1
  /\ key' = KEY_SCREENSHOT

C13_NoFrame == ~app.has_last_frame \/ app.last_frame = None

\* C13: handling the screenshot key changes none of is_paused, the pose,
\* hands and mirror flags, frame_count, fps, fps_history and last_frame, and
\* the handler returns True (the loop continues); with last_frame missing or
\* None nothing is handed to save_screenshot, otherwise last_frame is, once.
C13_ScreenshotIsSideEffectOnly ==
  [][C13_ScreenshotHandled =>
       /\ app' = app
       /\ config' = config
       /\ pc' = "keys"
       /\ exit' = exit
       /\ C13_NoFrame => shots' = shots
       /\ ~C13_NoFrame =>
            /\ shots'.calls = shots.calls + 1
            /\ shots'.saved \in {shots.saved, app.last_frame}]_vars

\* the screenshot key was handled before run() stored any frame, while paused
C13_Witness ==
  /\ pc = "keys"
  /\ key = KEY_SCREENSHOT
  /\ counts.handled = 1
  /\ ~app.has_last_frame
  /\ app.is_paused
  /\ shots = ShotsInit

\* C14: save_screenshot is called only while the screenshot key is handled,
\* and a write that fails is recoverable: the attributes of the application,
\* the flags, the camera and the detectors are as before, run() has not left
\* its normal path and goes on to read the next frame.
C14_SaveFailureIsRecoverable ==
  [][/\ shots' # shots =>
          /\ pc = "key"
          /\ key' = KEY_SCREENSHOT
          /\ counts'.handled = counts.handled + 1
          /\ shots'.calls = shots.calls + 1
     /\ shots'.failed # shots.failed =>
          /\ shots'.saved = shots.saved
          /\ app' = app
          /\ app'.is_running
          /\ config' = config
          /\ camera' = camera
          /\ pose_detector' = pose_detector
          /\ hand_detector' = hand_detector
          /\ window' = window
          /\ exit' = exit
          /\ exit' = "none"
          /\ pc' = "read"]_vars

\* a screenshot could not be written in the first iteration, and the second
\* frame has been read
C14_Witness ==
  /\ shots.failed = 1
  /\ shots.saved = None
  /\ counts.reads = 2
  /\ pc = "frame"
  /\ frame = Some(CameraFrame(2))
  /\ exit = "none"

\* the state of the application's state machine: Idle until the loop is
\* entered, Terminated once it is left, Paused or Running inside it
C15_StateOf(p, a) ==
  IF p \in {"start", "prompt"} THEN "Idle"
  ELSE IF p \in {"cleanup", "done"} THEN "Terminated"
  ELSE IF a.is_paused THEN "Paused"
  ELSE "Running"

C15_PauseHandled ==
  /\ pc = "key"
  /\ counts'.handled = counts.handled + 1
  /\ key' = KEY_PAUSE

\* C15: Paused is entered only from Running, never from Idle or Terminated,
\* and no execution leaves Paused to any state other than Running.
C15_PausedOnlyReturnsToRunning ==
  [][/\ (C15_StateOf(pc', app') = "Paused" /\ C15_StateOf(pc, app) # "Paused") =>
          C15_StateOf(pc, app) = "Running"
     /\ (C15_StateOf(pc, app) = "Paused" /\ C15_StateOf(pc', app') # "Paused") =>
          C15_StateOf(pc', app') = "Running"]_vars

\* C15, amended: Paused is entered only from Running, by the pause key; it is
\* left to Running, by the pause key only, or to Terminated (quit key, failed
\* read, interrupt), never to Idle; and the pause flag changes in no other
\* step.
C15_PausedLeavesToRunningOrTerminated ==
  [][/\ (C15_StateOf(pc', app') = "Paused" /\ C15_StateOf(pc, app) # "Paused") =>
          /\ C15_StateOf(pc, app) = "Running"
          /\ C15_PauseHandled
     /\ (C15_StateOf(pc, app) = "Paused" /\ C15_StateOf(pc', app') # "Paused") =>
          /\ C15_StateOf(pc', app') \in {"Running", "Terminated"}
          /\ C15_StateOf(pc', app') = "Running" => C15_PauseHandled
          /\ C15_StateOf(pc', app') = "Terminated" =>
               exit' \in {"quit", "read_failed", "interrupt"}
     /\ app'.is_paused # app.is_paused => C15_PauseHandled]_vars

\* the loop was paused by the key in the first iteration and resumed by it in
\* the second, which showed a paused frame
C15_Witness ==
  /\ pc = "read"
  /\ ~app.is_paused
  /\ key = KEY_PAUSE
  /\ counts.handled = 2
  /\ app.frame_count = 1
  /\ window # None
  /\ window[1].ops[Len(window[1].ops)].text = "PAUSADO"

\* the frames read successfully so far
C16_FramesRead == counts.reads - (IF exit = "read_failed" THEN 1 ELSE 0)

\* the reading of time.time() at the k-th call of calculate_fps
RECURSIVE C16_Stamp(_)
C16_Stamp(k) ==
  IF k = 0 THEN 1
  ELSE C16_Stamp(k - 1) + clock.dts[((k - 1) % Len(clock.dts)) + 1]

\* the time between frame k and frame k + 1, for the first n frames
C16_Gaps(n) == [k \in 1..(n - 1) |-> C16_Stamp(k + 1) - C16_Stamp(k)]

\* C16: after n >= 1 frames have been read, paused or not, exactly n - 1
\* samples have been appended to the history, the k-th equal to
\* 1 / (timestamp of frame k + 1 - timestamp of frame k).
C16_OneSamplePerFrameButFirst ==
  C16_FramesRead >= 1 =>
     /\ Len(app.fps_history) = C16_FramesRead - 1
     /\ \A k \in 1..Len(app.fps_history) :
          app.fps_history[k] = <<1, C16_Gaps(C16_FramesRead)[k]>>

\* C16, amended: calculate_fps runs once per frame read, paused or not, and
\* after n >= 1 frames the history holds one sample for every frame but the
\* first whose timestamp is later than the previous frame's (n - 1 samples
\* when the clock advanced between all frames, fewer otherwise), in order,
\* each equal to 1 / (current timestamp - previous timestamp).
C16_OneSamplePerAdvancedFrame ==
  /\ clock.calls = C16_FramesRead
  /\ C16_FramesRead >= 1 =>
       LET advanced == SelectSeq(C16_Gaps(C16_FramesRead), LAMBDA d : d > 0)
       IN /\ app.fps_history = [k \in 1..Len(advanced) |-> <<1, advanced[k]>>]
          /\ samples = app.fps_history
          /\ Len(app.fps_history) <= C16_FramesRead - 1
          /\ app.prev_time = C16_Stamp(C16_FramesRead)

\* the second frame was read while paused, two seconds after the first: one
\* sample, 1/2
C16_Witness ==
  /\ pc = "key"
  /\ app.is_paused
  /\ C16_FramesRead = 2
  /\ app.fps_history = << <<1, 2>> >>

\* the FPS values written on the frame a renderer call returned
C17_FpsShown ==
  LET texts == SelectSeq(render.out.frame.ops, LAMBDA o : o.op = "text" /\ o.text = "FPS")
  IN [k \in 1..Len(texts) |-> texts[k].val]

\* C17: the FPS value handed to the overlay is the most recent sample: fps
\* is the last element of fps_history whenever the history is not empty and
\* 0.0 before the first sample, and that value is the one drawn.
C17_FpsIsLastSample ==
  /\ app.fps_history # <<>> => app.fps = app.fps_history[Len(app.fps_history)]
  /\ app.fps_history = <<>> => app.fps = <<0, 1>>
  /\ samples # <<>> => app.fps = samples[Len(samples)]
  /\ render.op = "overlay" =>
       C17_FpsShown = << FormatTenths(IF samples = <<>> THEN <<0, 1>>
                                      ELSE samples[Len(samples)]) >>

\* an overlay drawn after several samples whose average differs from the
\* last one
C17_Witness ==
  /\ render.op = "overlay"
  /\ Len(app.fps_history) >= 3
  /\ app.fps = <<1, 2>>
  /\ AverageFps(app.fps_history) # app.fps
  /\ C17_FpsShown = <<5>>

\* the layer a draw operation belongs to: 3 the overlay (text, background
\* box), 2 a hand (lines and rings in the hand colour), 1 the body (lines and
\* rings in the skeleton colour); 0 for the filled landmark circle, which
\* both skeletons draw in the same colour just before the ring
C18_Layer(o) ==
  IF o.op \in {"text", "rect"} THEN 3
  ELSE IF o.color = HAND_COLOR THEN 2
  ELSE IF o.color = SKELETON_COLOR THEN 1
  ELSE 0

\* the layers of the operations on the frame shown, each filled circle
\* taking the layer of the ring that follows it
C18_Layers ==
  LET ops == window[1].ops
  IN [k \in 1..Len(ops) |->
        IF C18_Layer(ops[k]) # 0 THEN C18_Layer(ops[k])
        ELSE IF k < Len(ops) THEN C18_Layer(ops[k + 1]) ELSE 0]

C18_Count(text) ==
  Cardinality({k \in 1..Len(window[1].ops) :
                 window[1].ops[k].op = "text" /\ window[1].ops[k].text = text})

\* C18: in every active frame the body skeleton is drawn before every hand
\* skeleton and both before the overlay; the overlay is drawn exactly once,
\* and last, whatever the flags are and whatever was detected.
C18_DrawOrderIsFixed ==
  (pc = "key" /\ ~app.is_paused) =>
     /\ \A i, j \in 1..Len(C18_Layers) : i < j => C18_Layers[i] <= C18_Layers[j]
     /\ \A i \in 1..Len(C18_Layers) : C18_Layers[i] \in 1..3
     /\ C18_Layers # <<>>
     /\ C18_Layers[Len(C18_Layers)] = 3
     /\ C18_Count("FPS") = 1
     /\ C18_Count("Pose") = 1
     /\ C18_Count("Manos") = 1
     /\ C18_Count("instruction") = 7
     /\ Cardinality({k \in 1..Len(events) : events[k].op = "add_overlay"}) = 1
     /\ events[Len(events) - 1].op = "add_overlay"
     /\ events[Len(events)].op = "cv2.imshow"
     /\ \A k \in 1..Len(events) :
          events[k].op = "draw_combined_skeleton" => k < Len(events) - 1
     /\ (1 \in {C18_Layers[k] : k \in 1..Len(C18_Layers)}) = app.pose_detected
     /\ (2 \in {C18_Layers[k] : k \in 1..Len(C18_Layers)}) = (app.hands_detected > 0)

\* a frame with a body and two hands has been composed and shown
C18_Witness ==
  /\ pc = "key"
  /\ ~app.is_paused
  /\ app.pose_detected
  /\ app.hands_detected = 2
  /\ {1, 2, 3} \subseteq {C18_Layers[k] : k \in 1..Len(C18_Layers)}
  /\ ~config.MIRROR_MODE

\* an active frame on which nothing was detected carries the overlay alone
C18_WitnessOverlayOnly ==
  /\ pc = "key"
  /\ ~app.is_paused
  /\ ~app.pose_detected
  /\ app.hands_detected = 0
  /\ Len(C18_Layers) = 11

\* the operations a call of draw_hands_skeleton made for the h-th hand
C19_OpsOfHand(h) == SubSeq(render.out.frame.ops, 65 * (h - 1) + 1, 65 * h)

\* C19: for every hand in the list every edge of the hand topology and every
\* one of the 21 points is drawn, whatever the visibility of the points (23
\* lines, then a filled circle and a ring per point), hand after hand in the
\* order of the list, and what is drawn for a hand is what is drawn for it
\* when it is alone in the list.
C19_HandsDrawnIndependently ==
  (/\ render.op = "hands"
   /\ render.hands # None
   /\ \A h \in 1..Len(render.hands[1]) : Len(render.hands[1][h]) = NumHandLandmarks
   /\ config.SHOW_CONNECTIONS /\ config.SHOW_LANDMARKS) =>
     LET hands == render.hands[1]
         fr == render.frame
     IN /\ render.out.err = "ok"
        /\ Len(render.out.frame.ops) = 65 * Len(hands)
        /\ \A h \in 1..Len(hands) :
             LET seg == C19_OpsOfHand(h)
             IN /\ \A k \in 1..23 :
                     /\ seg[k].op = "line"
                     /\ seg[k].p = C2_Pixel(fr, hands[h][HandConnections[k][1] + 1])
                     /\ seg[k].q = C2_Pixel(fr, hands[h][HandConnections[k][2] + 1])
                     /\ seg[k].color = HAND_COLOR
                /\ \A i \in 1..NumHandLandmarks :
                     /\ seg[23 + 2 * i - 1].op = "circle"
                     /\ seg[23 + 2 * i - 1].p = C2_Pixel(fr, hands[h][i])
                     /\ seg[23 + 2 * i - 1].thick = -1
                     /\ seg[23 + 2 * i].op = "circle"
                     /\ seg[23 + 2 * i].p = C2_Pixel(fr, hands[h][i])
                     /\ seg[23 + 2 * i].color = HAND_COLOR
                /\ seg = draw_hands_skeleton(fr, Some(<<hands[h]>>)).frame.ops

\* two hands, whose points all have visibility 0, have been drawn
C19_Witness ==
  /\ render.op = "hands"
  /\ render.hands # None
  /\ Len(render.hands[1]) = 2
  /\ Len(render.hands[1][2]) = NumHandLandmarks
  /\ render.hands[1][1] # render.hands[1][2]
  /\ render.hands[1][2][1].visibility = <<0, 1>>
  /\ config.SHOW_CONNECTIONS /\ config.SHOW_LANDMARKS
  /\ Width(render.frame) = 40
  /\ Len(render.out.frame.ops) = 130
  /\ C19_OpsOfHand(1) # C19_OpsOfHand(2)

C20_Circles == SelectSeq(render.out.frame.ops, LAMBDA o : o.op = "circle")

C20_IsVisible(lm) == 2 * lm.visibility[1] > lm.visibility[2]

\* C20: draw_pose_skeleton draws a filled circle and a ring at every body
\* point of visibility > 0.5, in the order of the set, and nothing at a
\* point of visibility <= 0.5, whether or not a line touching the point was
\* drawn and whether or not lines are drawn at all.
C20_CirclesIndependentOfLines ==
  (/\ render.op = "pose" /\ render.pose # None
   /\ Len(render.pose[1]) = NumPoseLandmarks /\ config.SHOW_LANDMARKS) =>
     LET lms == render.pose[1]
         fr == render.frame
         visible == SelectSeq(lms, C20_IsVisible)
     IN /\ render.out.err = "ok"
        /\ Len(C20_Circles) = 2 * Len(visible)
        /\ \A k \in 1..Len(visible) :
             /\ C20_Circles[2 * k - 1] =
                  CircleOp(C2_Pixel(fr, visible[k]), LANDMARK_RADIUS, LANDMARK_COLOR, -1)
             /\ C20_Circles[2 * k] =
                  CircleOp(C2_Pixel(fr, visible[k]), LANDMARK_RADIUS + 2, SKELETON_COLOR, 2)
        /\ Width(fr) = 40 =>
             \A i \in 1..Len(lms) :
               ~C20_IsVisible(lms[i]) =>
                 \A k \in 1..Len(C20_Circles) : C20_Circles[k].p # C2_Pixel(fr, lms[i])

\* left shoulder (11) visible, left elbow (13) occluded: the shoulder has its
\* circles, the elbow none, and no line joins them
C20_Witness ==
  /\ render.op = "pose"
  /\ render.pose # None
  /\ Len(render.pose[1]) = NumPoseLandmarks
  /\ config.SHOW_LANDMARKS /\ config.SHOW_CONNECTIONS
  /\ Width(render.frame) = 40
  /\ render.pose[1][12].visibility = <<9, 10>>
  /\ render.pose[1][14].visibility = <<3, 10>>
  /\ Len(C20_Circles) = 64
  /\ \E k \in 1..Len(C20_Circles) :
       C20_Circles[k].p = C2_Pixel(render.frame, render.pose[1][12])
  /\ <<C2_Pixel(render.frame, render.pose[1][12]),
       C2_Pixel(render.frame, render.pose[1][14])>> \notin C2_LinesDrawn

\* --------------------------------------- the camera handler on its own

\* calls made on one CameraHandler
MaxCameraCalls == 4

\* the calls made on the handler so far, each with what it returned
CameraCall(op, ret, fr) == [op |-> op, ret |-> ret, frame |-> fr]

\* a CameraHandler just constructed, used directly; events is the log of its
\* calls and counts.reads the number of cap.read() calls
InitCamera ==
  /\ pc = "camera"
  /\ config = ConfigShipped
  /\ clock = [now |-> 1, dts |-> <<1>>, calls |-> 0]
  /\ render = RenderIdle
  /\ camera = CameraNew
  /\ pose_detector = DetectorNone
  /\ hand_detector = DetectorNone
  /\ app = AppInit
  /\ frame = None
  /\ window = None
  /\ samples = <<>>
  /\ events = <<>>
  /\ counts = CountsInit
  /\ key = NO_KEY
  /\ shots = ShotsInit
  /\ exit = "none"

\* camera.initialize()
CameraInitialize ==
  /\ pc = "camera"
  /\ Len(events) < MaxCameraCalls
  /\ \E outcome \in InitializeOutcomes :
       LET r == initialize(camera, outcome)
       IN /\ camera' = r.camera
          /\ events' = Append(events, CameraCall("initialize", r.ret, None))
  /\ UNCHANGED <<pc, config, app, pose_detector, hand_detector, frame, window, clock,
                 samples, counts, key, shots, exit, render>>

\* camera.read_frame(); only an open capture can deliver a frame
CameraReadFrame ==
  /\ pc = "camera"
  /\ Len(events) < MaxCameraCalls
  /\ \E device_ok \in (IF camera.cap = "open" THEN BOOLEAN ELSE {FALSE}) :
       LET r == read_frame(camera, device_ok, CameraFrame(counts.reads + 1))
       IN /\ events' = Append(events, CameraCall("read_frame", r.success, r.frame))
          /\ counts' = [counts EXCEPT !.reads = @ + (IF r.touched THEN 1 ELSE 0)]
          /\ frame' = r.frame
  /\ UNCHANGED <<pc, config, app, camera, pose_detector, hand_detector, window, clock,
                 samples, key, shots, exit, render>>

\* camera.release(), also what __exit__ and __del__ call
CameraRelease ==
  /\ pc = "camera"
  /\ Len(events) < MaxCameraCalls
  /\ camera' = release(camera)
  /\ events' = Append(events, CameraCall("release", TRUE, None))
  /\ UNCHANGED <<pc, config, app, pose_detector, hand_detector, frame, window, clock,
                 samples, counts, key, shots, exit, render>>

NextCamera ==
  \/ CameraInitialize
  \/ CameraReadFrame
  \/ CameraRelease

SpecCamera == InitCamera /\ [][NextCamera]_vars

\* ------------------------------------------ the detectors on their own

\* detect() calls made on one detector
MaxDetects == 2

\* the frames handed to detect(): None or an image
DetectFrames == {None, Some(CameraFrame(1))}

\* a PoseDetector and a HandDetector just constructed, used directly
InitDetect ==
  /\ pc = "detector"
  /\ config = ConfigShipped
  /\ clock = [now |-> 1, dts |-> <<1>>, calls |-> 0]
  /\ render = RenderIdle
  /\ camera = CameraNone
  /\ pose_detector = DetectorNew
  /\ hand_detector = DetectorNew
  /\ app = AppInit
  /\ frame = None
  /\ window = None
  /\ samples = <<>>
  /\ events = <<>>
  /\ counts = CountsInit
  /\ key = NO_KEY
  /\ shots = ShotsInit
  /\ exit = "none"

\* pose_detector.detect(frame)
PoseDetect ==
  /\ pc = "detector"
  /\ pose_detector.calls < MaxDetects
  /\ pose_detector.closes = 0
  /\ \E fr \in DetectFrames, result \in PoseEngineResults :
       pose_detector' = IF fr = None THEN detect_none(pose_detector)
                        ELSE detect(pose_detector, result)
  /\ UNCHANGED <<pc, config, app, camera, hand_detector, frame, window, clock, samples,
                 events, counts, key, shots, exit, render>>

\* hand_detector.detect(frame)
HandsDetect ==
  /\ pc = "detector"
  /\ hand_detector.calls < MaxDetects
  /\ hand_detector.closes = 0
  /\ \E fr \in DetectFrames, result \in HandEngineResults :
       hand_detector' = IF fr = None THEN detect_none(hand_detector)
                        ELSE detect(hand_detector, result)
  /\ UNCHANGED <<pc, config, app, camera, pose_detector, frame, window, clock, samples,
                 events, counts, key, shots, exit, render>>

\* pose_detector.close(), called by the owner as cleanup() does
PoseClose ==
  /\ pc = "detector"
  /\ pose_detector.closes = 0
  /\ pose_detector' = close(pose_detector)
  /\ UNCHANGED <<pc, config, app, camera, hand_detector, frame, window, clock, samples,
                 events, counts, key, shots, exit, render>>

\* hand_detector.close(), called by the owner as cleanup() does
HandsClose ==
  /\ pc = "detector"
  /\ hand_detector.closes = 0
  /\ hand_detector' = close(hand_detector)
  /\ UNCHANGED <<pc, config, app, camera, pose_detector, frame, window, clock, samples,
                 events, counts, key, shots, exit, render>>

\* the detectors are dropped: PoseDetector.__del__ and HandDetector.__del__
\* each call self.close()
DetectorsDel ==
  /\ pc = "detector"
  /\ pose_detector' = close(pose_detector)
  /\ hand_detector' = close(hand_detector)
  /\ pc' = "done"
  /\ UNCHANGED <<config, app, camera, frame, window, clock, samples, events, counts,
                 key, shots, exit, render>>

NextDetect ==
  \/ PoseDetect
  \/ HandsDetect
  \/ PoseClose
  \/ HandsClose
  \/ DetectorsDel

SpecDetect == InitDetect /\ [][NextDetect]_vars

\* ------------------------------------------------------------- the claims

\* an active frame is composed and shown in this step
C21_ActiveFrameDone == pc = "frame" /\ ~app.is_paused /\ pc' = "key"

\* C21: in every active frame the pose detector's detect() is invoked if and
\* only if pose detection is enabled and the hand detector's if and only if
\* hand detection is enabled; a disabled detector contributes no landmark set
\* and its status for the frame is absent (pose_detected false,
\* hands_detected 0).
C21_ExactlyEnabledDetectorsRun ==
  [][C21_ActiveFrameDone =>
       /\ (pose_detector'.calls = pose_detector.calls + 1) = config.ENABLE_POSE_DETECTION
       /\ (hand_detector'.calls = hand_detector.calls + 1) = config.ENABLE_HAND_DETECTION
       /\ pose_detector'.calls \in {pose_detector.calls, pose_detector.calls + 1}
       /\ hand_detector'.calls \in {hand_detector.calls, hand_detector.calls + 1}
       /\ ~config.ENABLE_POSE_DETECTION => ~app'.pose_detected
       /\ ~config.ENABLE_HAND_DETECTION => app'.hands_detected = 0]_vars

C22_Flags(a, cfg) ==
  <<a.is_paused, cfg.ENABLE_POSE_DETECTION, cfg.ENABLE_HAND_DETECTION, cfg.MIRROR_MODE>>

C22_KeyHandled(k) ==
  /\ pc = "key"
  /\ counts'.handled = counts.handled + 1
  /\ key' = k

\* C22: the pause flag and the pose, hands and mirror flags are changed only
\* by key handling: the pause key flips is_paused and nothing else of the
\* four, each feature key flips its own flag and nothing else of the four,
\* and no other step (reading, FPS sampling, frame processing, rendering,
\* screenshot, quit, cleanup) changes any of them.
C22_FlagsChangeOnlyByTheirKey ==
  [][/\ C22_KeyHandled(KEY_PAUSE) =>
          C22_Flags(app', config') =
            <<~app.is_paused, config.ENABLE_POSE_DETECTION,
              config.ENABLE_HAND_DETECTION, config.MIRROR_MODE>>
     /\ C22_KeyHandled(KEY_TOGGLE_POSE) =>
          C22_Flags(app', config') =
            <<app.is_paused, ~config.ENABLE_POSE_DETECTION,
              config.ENABLE_HAND_DETECTION, config.MIRROR_MODE>>
     /\ C22_KeyHandled(KEY_TOGGLE_HANDS) =>
          C22_Flags(app', config') =
            <<app.is_paused, config.ENABLE_POSE_DETECTION,
              ~config.ENABLE_HAND_DETECTION, config.MIRROR_MODE>>
     /\ C22_KeyHandled(KEY_TOGGLE_MIRROR) =>
          C22_Flags(app', config') =
            <<app.is_paused, config.ENABLE_POSE_DETECTION,
              config.ENABLE_HAND_DETECTION, ~config.MIRROR_MODE>>
     /\ C22_Flags(app', config') # C22_Flags(app, config) =>
          \E k \in {KEY_PAUSE, KEY_TOGGLE_POSE, KEY_TOGGLE_HANDS, KEY_TOGGLE_MIRROR} :
            C22_KeyHandled(k)
     /\ config'.SHOW_CONNECTIONS = config.SHOW_CONNECTIONS
     /\ config'.SHOW_LANDMARKS = config.SHOW_LANDMARKS]_vars

\* the pause key was handled in the first iteration, the screenshot key in
\* the second, which was paused: the flags are as the pause key left them
C22_Witness ==
  /\ pc = "read"
  /\ counts.handled = 2
  /\ key = KEY_SCREENSHOT
  /\ app.is_paused
  /\ shots.calls = 1
  /\ config.MIRROR_MODE /\ config.ENABLE_POSE_DETECTION /\ ~config.ENABLE_HAND_DETECTION

\* the iterations that read a frame have all run to their end
C23_IterationsComplete == pc \in {"read", "done"} /\ exit \in {"none", "quit", "read_failed"}

C24_LandmarksReflectLastDetect ==
  /\ pose_detector.returned # None =>
       (get_landmarks(pose_detector) # None) = pose_detector.returned[1]
  /\ hand_detector.returned # None =>
       (get_num_hands_detected(hand_detector) > 0) = hand_detector.returned[1]

\* C28: each detector's engine handle is closed at most once over the
\* object's lifetime: after cleanup() has called close(), a later close()
\* (from __del__) does not close the handle again.
C28_EngineClosedAtMostOnce ==
  /\ pose_detector.closes <= 1
  /\ hand_detector.closes <= 1

\* an iteration read its frame, was not paused, and process_frame returned:
\* the frame composed with the overlay is shown in this step
C25_FrameProcessed ==
  /\ pc = "frame"
  /\ ~app.is_paused
  /\ counts'.shows = counts.shows + 1
  /\ \E i \in 1..Len(events') : events'[i].op = "add_overlay"

\* C25: frame_count increases by exactly 1 in every loop iteration in which a
\* frame was read, the application was not paused and process_frame returned
\* without raising, and is unchanged in every other step; it starts at 0, so
\* it always equals the number of such iterations and never exceeds the
\* number of frames shown.
C25_FrameCountCountsProcessedFrames ==
  [][/\ app'.frame_count = app.frame_count + (IF C25_FrameProcessed THEN 1 ELSE 0)
     /\ app'.frame_count <= counts'.shows
     /\ pc = "start" => app.frame_count = 0]_vars

\* two frames read, the first processed, the second shown paused
C25_Witness ==
  /\ pc = "key"
  /\ counts.reads = 2
  /\ counts.shows = 2
  /\ app.is_paused
  /\ app.frame_count = 1

C27_Texts(fr) ==
  {fr.ops[i].text : i \in {j \in 1..Len(fr.ops) : fr.ops[j].op \in {"text", "mirrored_text"}}}

\* C27: whenever a key event is handled in the main loop, last_frame exists,
\* is not None and equals the frame composed and shown in that same
\* iteration: it is built on the frame read in this iteration, it is what
\* imshow was last given, and it ends with the overlay when active and with
\* the pause banner when paused; so a screenshot key in the loop always
\* reaches save_screenshot, and what is written is that frame.
C27_LastFrameIsThisIterationsFrame ==
  [][(pc = "key" /\ counts'.handled = counts.handled + 1) =>
       /\ app.has_last_frame
       /\ app.last_frame # None
       /\ app.last_frame = window
       /\ events[Len(events)] = Event("cv2.imshow", app.last_frame[1])
       /\ app.last_frame[1].img \in
            {CameraFrame(counts.reads).img, Reverse(CameraFrame(counts.reads).img)}
       /\ \E i \in 1..Len(events) :
            events[i].op = (IF app.is_paused THEN "cv2.putText" ELSE "add_overlay")
       /\ app.is_paused => C27_Texts(app.last_frame[1]) = {"PAUSADO"}
       /\ ~app.is_paused =>
            ({"Pose", "Manos"} \subseteq C27_Texts(app.last_frame[1])
             /\ "PAUSADO" \notin C27_Texts(app.last_frame[1]))
       /\ key' = KEY_SCREENSHOT =>
            /\ shots'.calls = shots.calls + 1
            /\ shots'.failed = shots.failed => shots'.saved = app.last_frame
            /\ shots'.failed # shots.failed => shots'.saved = shots.saved]_vars

\* the second iteration was paused and its screenshot was written: the file
\* holds the banner frame built on the second frame read
C27_Witness ==
  /\ pc = "read"
  /\ counts.reads = 2
  /\ key = KEY_SCREENSHOT
  /\ app.is_paused
  /\ shots.calls = 1
  /\ shots.saved = app.last_frame
  /\ shots.saved # None
  /\ shots.saved[1].img = CameraFrame(2).img
  /\ C27_Texts(shots.saved[1]) = {"PAUSADO"}

\* among the first n calls there is an initialize() that returned True with
\* no release() after it
C29_Initialized(n) ==
  \E i \in 1..n :
    /\ events[i].op = "initialize" /\ events[i].ret
    /\ \A j \in (i + 1)..n : events[j].op # "release"

\* the read_frame() calls made so far that went to the capture device
C29_DeviceReads ==
  Cardinality({i \in 1..Len(events) : events[i].op = "read_frame" /\ C29_Initialized(i - 1)})

\* C29: for CameraHandler, after any sequence of initialize, read_frame and
\* release calls: a read_frame that returned success False returned no frame
\* and one that returned True returned a frame; a read_frame made before any
\* successful initialize, or after a release with no successful initialize
\* since, returned (False, None) and did not call cap.read(); and after
\* release() is_opened is false.
C29_CameraContract ==
  /\ \A i \in 1..Len(events) :
       events[i].op = "read_frame" =>
         /\ events[i].ret = (events[i].frame # None)
         /\ ~C29_Initialized(i - 1) => (~events[i].ret /\ events[i].frame = None)
  /\ counts.reads = C29_DeviceReads
  /\ ~C29_Initialized(Len(events)) => ~camera.is_opened
  /\ (Len(events) >= 1 /\ events[Len(events)].op = "release") => ~camera.is_opened

\* initialize succeeded, a frame was read, the camera was released, and the
\* read after the release returned (False, None) with the device read once
C29_Witness ==
  /\ Len(events) = 4
  /\ events[1] = CameraCall("initialize", TRUE, None)
  /\ events[2] = CameraCall("read_frame", TRUE, Some(CameraFrame(1)))
  /\ events[3].op = "release"
  /\ events[4] = CameraCall("read_frame", FALSE, None)
  /\ counts.reads = 1
  /\ camera.cap = "released"

\* the seven keys handle_key_events recognizes
C30_RecognizedKeys ==
  {KEY_QUIT_ESC, KEY_QUIT_Q, KEY_SCREENSHOT, KEY_PAUSE, KEY_TOGGLE_HANDS,
   KEY_TOGGLE_POSE, KEY_TOGGLE_MIRROR}

\* handle_key_events is called with key' in this step
C30_Handled == pc \in {"keys", "key"} /\ counts'.handled = counts.handled + 1

\* C30: a key code that is none of the seven recognized keys changes nothing
\* of the application (pause flag, feature flags, frame_count, FPS history,
\* last_frame), hands nothing to save_screenshot, and handle_key_events
\* returns True; only ESC and q make it return False.
C30_UnknownKeyIsIgnored ==
  [][C30_Handled =>
       /\ key' \notin C30_RecognizedKeys =>
            /\ app' = app
            /\ config' = config
            /\ shots' = shots
            /\ exit' = exit
            /\ pc' \in {"keys", "read"}
       /\ (pc' \in {"done", "cleanup"}) <=> key' \in {KEY_QUIT_ESC, KEY_QUIT_Q}]_vars

\* 'Q' was handled on a paused application that has a frame: nothing
\* changed and the handler can be called again
C30_Witness ==
  /\ pc = "keys"
  /\ key = KEY_QUIT_Q - 32
  /\ counts.handled = 1
  /\ app.is_paused
  /\ app.last_frame # None
  /\ shots.calls = 0
  /\ exit = "none"

====
